---------------------------- MODULE Spec2Model ----------------------------
(***************************************************************************)
(* Block ingestion pipeline of the AMM indexer (core/block-processor.js):  *)
(* processHeight, its bounded-concurrency runner runWithConcurrency, the   *)
(* process-local pool cache and the State Store writes the tasks issue.    *)
(*                                                                         *)
(* One action is one synchronous stretch of JavaScript: the code between   *)
(* two suspension points (awaits on storage).  A storage call takes effect *)
(* atomically at the moment its action fires; the continuation that the    *)
(* code runs when the call resolves is part of the same action.            *)
(***************************************************************************)
EXTENDS Integers, Sequences, FiniteSets, TLC

VARIABLES
  blk,                      \* the unwrapped block of the height: [header, txs]
  pc,                       \* position of processHeight
  txi,                      \* loop index i of the per-transaction loop (1-based)
  tasks,                    \* primary task list (tasks)
  lowPrioTasks,             \* low-priority metadata task list
  pairContractsToPrefetch,  \* set of pool addresses to prefetch
  poolsByContract,          \* process cache: pool address -> pool or NoPool
  metaFetchedDenoms,        \* process set of denoms already queued for metadata
  dbPools,                  \* State Store: pools table, address -> row or NoPoolRow
  dbTrades,                 \* State Store: trades table (set of rows)
  dbPoolState,              \* State Store: pool_state, address -> reserves or NoState
  dbBars,                   \* State Store: ohlcv_1m, <<address, bucket>> -> bar
  dbTokMeta,                \* tokens enriched by setTokenMetaFromLCD
  rTasks,                   \* runWithConcurrency: the task array of the current call
  rI,                       \* runWithConcurrency: i, number of tasks started
  rLimit,                   \* runWithConcurrency: the limit of the current call
  workers,                  \* runWithConcurrency: the worker coroutines
  results,                  \* runWithConcurrency: results[idx]
  faults,                   \* storage/LCD calls that have rejected so far
  log,                      \* history: <<run, tid, what>> of the current and past runs
  run,                      \* how many times processHeight was called on the height
  snap,                     \* history: the State Store when the previous call returned
  exIn,                     \* extraction under test: the events of one transaction
  exOut,                    \* extraction under test: what the loop body pushed
  candleReq,                \* getCandles: the arguments and the stored 1-minute bars
  candleRes,                \* getCandles: [done, bars] the returned series
  simReq,                   \* simulateXYK: its argument
  simRes,                   \* simulateXYK: [done, out, price] what it returned
  routeReq,                 \* GET /swap: the query and the pools the store holds
  routeRes,                 \* GET /swap: the response
  metaReq,                  \* setTokenMetaFromLCD: the token row and what the sources answer
  metaRes,                  \* setTokenMetaFromLCD: [done, row] the row it left
  holdReq,                  \* refreshHoldersOnce: the holders table, the owner pages, maxPages
  hold                      \* refreshHoldersOnce: its position, locals and the holders table

\* the state of the read API and of the functions examined on their own
jobs == <<metaReq, metaRes, holdReq, hold>>
api == <<exIn, exOut, candleReq, candleRes, simReq, simRes, routeReq, routeRes, jobs>>

vars == <<api, blk, pc, txi, tasks, lowPrioTasks, pairContractsToPrefetch,
          poolsByContract, metaFetchedDenoms, dbPools, dbTrades, dbPoolState,
          dbBars, dbTokMeta, rTasks, rI, rLimit, workers, results, faults, log, run,
          snap>>

-----------------------------------------------------------------------------
(* Bounds of the model *)
MaxTxs == 2          \* transactions per block
MaxFaults == 1       \* storage calls that may reject
MaxRuns == 2         \* calls of processHeight on the same height

(* Tunables of the program (env overrides; small values keep the model finite) *)
BLOCK_PROC_CONCURRENCY == 2
MAX_PENDING_TASKS == 3

FACTORY_ADDR == "factory"
NULL == "null"
NoAmt == 0 - 1       \* digitsOrNull(...) = null
BadAmt == 0 - 2      \* an amount attribute that is not a string of digits

Min(a, b) == IF a < b THEN a ELSE b

RECURSIVE GCD(_, _)
GCD(a, b) == IF b = 0 THEN a ELSE GCD(b, a % b)

-----------------------------------------------------------------------------
(* Pools *)
PoolAddrs == {"pOld", "pNew", "pGhost"}

NoPool == [pool_id |-> 0, base_denom |-> NULL, quote_denom |-> NULL,
           base_exp |-> 0, quote_exp |-> 0, is_uzig_quote |-> FALSE]
NoPoolRow == [pool_id |-> 0, base |-> NULL, quote |-> NULL, height |-> 0, tx_hash |-> 0]
NoState == [r1d |-> NULL, r1a |-> NoAmt, r2d |-> NULL, r2a |-> NoAmt]
NoPrice == <<0, 1>>
NoBar == [close |-> NoPrice, volume |-> 0, trades |-> 0]

TokenExp(denom) == 6

\* pools.js poolWithTokens: the pool joined with its tokens, or null
poolWithTokens(pools, addr) ==
  IF pools[addr].pool_id = 0 THEN NoPool
  ELSE [pool_id |-> pools[addr].pool_id,
        base_denom |-> pools[addr].base, quote_denom |-> pools[addr].quote,
        base_exp |-> TokenExp(pools[addr].base),
        quote_exp |-> TokenExp(pools[addr].quote),
        is_uzig_quote |-> (pools[addr].quote = "uzig")]

\* pools.js upsertPool: insert, or ignore on conflict of the address
upsertPool(pools, t, h) ==
  IF pools[t.pair].pool_id # 0 THEN pools
  ELSE [pools EXCEPT ![t.pair] =
          [pool_id |-> 1 + Cardinality({a \in PoolAddrs : pools[a].pool_id # 0}),
           base |-> t.base, quote |-> t.quote, height |-> h, tx_hash |-> t.tx_hash]]

\* trades.js insertTrade: append unless a row has the same natural key
NaturalKey(tr) == <<tr.tx_hash, tr.pool_id, tr.msg_index>>
insertTrade(trades, tr) ==
  IF \E o \in trades : NaturalKey(o) = NaturalKey(tr) THEN trades ELSE trades \cup {tr}

\* pool_state.js upsertPoolState: overwrite by pool
upsertPoolState(states, addr, t) ==
  [states EXCEPT ![addr] = [r1d |-> t.r1d, r1a |-> t.r1a, r2d |-> t.r2d, r2a |-> t.r2a]]

\* ohlcv.js upsertOHLCV1m: merge by (pool, minute); volume and trade count
\* accumulate, the price is overwritten
upsertOHLCV1m(bars, key, price, vol, inc) ==
  [bars EXCEPT ![key] = [close |-> price,
                         volume |-> bars[key].volume + vol,
                         trades |-> bars[key].trades + inc]]


-----------------------------------------------------------------------------
(* Events of a transaction result: one record per event, a field per attribute
   the processor reads (NULL / NoAmt: the attribute is absent) *)
Ev0 == [type |-> "wasm", action |-> NULL, contract |-> NULL,
        pair_contract_addr |-> NULL, d1 |-> NULL, d2 |-> NULL,
        offer |-> NULL, offerAmt |-> NoAmt, retAmt |-> NoAmt,
        r1d |-> NULL, r1a |-> NoAmt, r2d |-> NULL, r2a |-> NoAmt,
        share |-> NoAmt, msg_index |-> NoAmt, reserves |-> <<>>]

CreatePairEv(contract, d1, d2) ==
  [Ev0 EXCEPT !.action = "create_pair", !.contract = contract, !.d1 = d1, !.d2 = d2]
RegisterEv(contract, addr) ==
  [Ev0 EXCEPT !.action = "register", !.contract = contract, !.pair_contract_addr = addr]
InstantiateEv(addr) == [Ev0 EXCEPT !.type = "instantiate", !.contract = addr]
SwapEv(pool, offer, offerAmt, retAmt, r1d, r1a, r2d, r2a) ==
  [Ev0 EXCEPT !.action = "swap", !.contract = pool, !.offer = offer,
              !.offerAmt = offerAmt, !.retAmt = retAmt,
              !.r1d = r1d, !.r1a = r1a, !.r2d = r2d, !.r2a = r2a]
LiqEv(action, pool, r1d, r1a, r2d, r2a, share) ==
  [Ev0 EXCEPT !.action = action, !.contract = pool, !.share = share,
              !.r1d = r1d, !.r1a = r1a, !.r2d = r2d, !.r2a = r2a]

\* parse.js byType / wasmByAction
byType(events, type) == SelectSeq(events, LAMBDA e : e.type = type)
wasmByAction(wasms, action) == SelectSeq(wasms, LAMBDA e : e.action = action)

\* parse.js normalizePair: the native asset, when present, is the quote
normalizePair(d1, d2) ==
  IF d1 = "uzig" THEN [base |-> d2, quote |-> d1] ELSE [base |-> d1, quote |-> d2]

\* parse.js classifyDirection
classifyDirection(offer, quoteDenom) == IF offer = quoteDenom THEN "buy" ELSE "sell"

-----------------------------------------------------------------------------
(* Task closures pushed by processHeight, as records of what they captured *)
Task0 == [kind |-> NULL, tid |-> 0, pair |-> NULL, base |-> NULL, quote |-> NULL,
          action |-> NULL, offer |-> NULL, offerAmt |-> NoAmt, retAmt |-> NoAmt,
          r1d |-> NULL, r1a |-> NoAmt, r2d |-> NULL, r2a |-> NoAmt,
          msg_index |-> 0, tx_hash |-> 0, denom |-> NULL]

ResolveAnyRegister(wasms, insts) ==
  LET regs == SelectSeq(wasms, LAMBDA w : w.action = "register")
      fromReg == IF Len(regs) > 0 THEN regs[1].pair_contract_addr ELSE NULL
      fromInst == IF Len(insts) > 0 THEN insts[Len(insts)].contract ELSE NULL
  IN IF fromReg # NULL THEN fromReg ELSE fromInst

\* the pool address of a create_pair: the factory's register event, else the
\* last instantiate event of the transaction
ResolvePoolAddr(wasms, insts) ==
  LET regs == SelectSeq(wasms, LAMBDA w : w.action = "register" /\ w.contract = FACTORY_ADDR)
      fromReg == IF Len(regs) > 0 THEN regs[1].pair_contract_addr ELSE NULL
      fromInst == IF Len(insts) > 0 THEN insts[Len(insts)].contract ELSE NULL
  IN IF fromReg # NULL THEN fromReg ELSE fromInst

\* rememberTokenMetaOnce over the two denoms of a create_pair, in order
MetaTasks(denoms, seen) ==
  LET d1new == denoms[1] # NULL /\ denoms[1] \notin seen
      seen1 == IF d1new THEN seen \cup {denoms[1]} ELSE seen
      d2new == denoms[2] # NULL /\ denoms[2] \notin seen1
  IN [low |-> (IF d1new THEN <<[Task0 EXCEPT !.kind = "meta", !.denom = denoms[1]]>> ELSE <<>>)
              \o (IF d2new THEN <<[Task0 EXCEPT !.kind = "meta", !.denom = denoms[2]]>> ELSE <<>>),
      seen |-> IF d2new THEN seen1 \cup {denoms[2]} ELSE seen1]

\* the create_pair loop of one transaction (lines 89-117)
RECURSIVE CreatePairLoop(_, _, _, _, _)
CreatePairLoop(cps, k, poolAddr, txHash, acc) ==
  IF k > Len(cps) THEN acc
  ELSE LET cp == cps[k]
           np == normalizePair(cp.d1, cp.d2)
           mt == MetaTasks(<<np.base, np.quote>>, acc.seen)
       IN IF cp.contract # FACTORY_ADDR \/ poolAddr = NULL
          THEN CreatePairLoop(cps, k + 1, poolAddr, txHash, acc)
          ELSE CreatePairLoop(cps, k + 1, poolAddr, txHash,
                 [tasks |-> Append(acc.tasks,
                              [Task0 EXCEPT !.kind = "create_pair", !.pair = poolAddr,
                                            !.base = np.base, !.quote = np.quote,
                                            !.tx_hash = txHash]),
                  low |-> acc.low \o mt.low,
                  seen |-> mt.seen])

\* parse.js digitsOrNull: a string of digits, or null
digitsOrNull(x) == IF x < 0 THEN NoAmt ELSE x

\* parse.js parseReservesKV: the packed string as its ordered (denom, amount) pairs
parseReservesKV(str) ==
  [k \in 1..Len(str) |-> [denom |-> str[k].denom, amount_base |-> str[k].amount]]

PackedElseA(a, b) == IF b # NoAmt THEN b ELSE a

\* a ?? b on denoms and on amounts
OrElseD(a, b) == IF a # NULL THEN a ELSE b
OrElseA(a, b) == IF a # NoAmt THEN a ELSE b

ReservesKeepExplicit(ev, res) == res

\* lines 141-145: the packed string fills the fields the attributes left null
ReservesFallback(ev, res) ==
  IF (res.r1d = NULL \/ res.r1a = NoAmt \/ res.r2d = NULL \/ res.r2a = NoAmt)
     /\ ev.reserves # <<>>
  THEN LET kv == parseReservesKV(ev.reserves)
           one == IF Len(kv) >= 1
                  THEN [res EXCEPT !.r1d = OrElseD(res.r1d, kv[1].denom),
                                   !.r1a = OrElseA(res.r1a, digitsOrNull(kv[1].amount_base))]
                  ELSE res
       IN IF Len(kv) >= 2
          THEN [one EXCEPT !.r2d = OrElseD(res.r2d, kv[2].denom),
                           !.r2a = OrElseA(res.r2a, digitsOrNull(kv[2].amount_base))]
          ELSE one
  ELSE res

\* lines 135-145: the four reserve fields of a swap
SwapReserves(ev) ==
  ReservesFallback(ev, [r1d |-> ev.r1d, r1a |-> digitsOrNull(ev.r1a),
                        r2d |-> ev.r2d, r2a |-> digitsOrNull(ev.r2a)])

\* msgIndex = Number(attr || idx)
MsgIndex(ev, idx) == IF ev.msg_index # NoAmt THEN ev.msg_index ELSE idx

\* the swap loop (lines 120-188): one task per swap that names its pair contract
SwapTasks(swaps, txHash) ==
  LET one(k) == [Task0 EXCEPT !.kind = "swap", !.pair = swaps[k].contract,
                              !.action = "swap", !.offer = swaps[k].offer,
                              !.offerAmt = digitsOrNull(swaps[k].offerAmt),
                              !.retAmt = digitsOrNull(swaps[k].retAmt),
                              !.r1d = SwapReserves(swaps[k]).r1d,
                              !.r1a = SwapReserves(swaps[k]).r1a,
                              !.r2d = SwapReserves(swaps[k]).r2d,
                              !.r2a = SwapReserves(swaps[k]).r2a,
                              !.msg_index = MsgIndex(swaps[k], k - 1), !.tx_hash = txHash]
  IN SelectSeq([k \in 1..Len(swaps) |-> one(k)], LAMBDA t : t.pair # NULL)

\* the liquidity loop (lines 190-235): provides, then withdraws
LiqTasks(liqs, txHash) ==
  LET one(k) == [Task0 EXCEPT !.kind = "liq", !.pair = liqs[k].contract,
                              !.action = IF liqs[k].action = "provide_liquidity"
                                         THEN "provide" ELSE "withdraw",
                              !.retAmt = liqs[k].share,
                              !.r1d = liqs[k].r1d, !.r1a = liqs[k].r1a,
                              !.r2d = liqs[k].r2d, !.r2a = liqs[k].r2a,
                              !.msg_index = MsgIndex(liqs[k], k - 1), !.tx_hash = txHash]
  IN SelectSeq([k \in 1..Len(liqs) |-> one(k)], LAMBDA t : t.pair # NULL)

\* one iteration of the per-transaction loop, up to the back-pressure check:
\* what it appends to tasks and lowPrioTasks, and the two sets it extends
ExtractTx(events, i, seen) ==
  LET wasms == byType(events, "wasm")
      insts == byType(events, "instantiate")
      txHash == i
      cp == CreatePairLoop(wasmByAction(wasms, "create_pair"), 1,
                           ResolvePoolAddr(wasms, insts), txHash,
                           [tasks |-> <<>>, low |-> <<>>, seen |-> seen])
      sw == SwapTasks(wasmByAction(wasms, "swap"), txHash)
      lq == LiqTasks(wasmByAction(wasms, "provide_liquidity")
                       \o wasmByAction(wasms, "withdraw_liquidity"), txHash)
      new == cp.tasks \o sw \o lq
  IN [tasks |-> [k \in 1..Len(new) |-> [new[k] EXCEPT !.tid = 10 * i + k]],
      low |-> cp.low,
      seen |-> cp.seen,
      prefetch |-> [k \in 1..Len(sw) |-> sw[k].pair] \o [k \in 1..Len(lq) |-> lq[k].pair]]


\* Set.add of each element of items, in order (a Set keeps insertion order)
RECURSIVE AddAll(_, _)
AddAll(set, items) ==
  IF items = <<>> THEN set
  ELSE AddAll(IF \E k \in 1..Len(set) : set[k] = Head(items) THEN set
              ELSE Append(set, Head(items)), Tail(items))

-----------------------------------------------------------------------------
(* What a task does between two suspension points *)

SyncStartNoCache(t, cache) ==
  CASE t.kind = "create_pair" -> [step |-> "upsertPool", pool |-> NoPool]
    [] t.kind \in {"swap", "liq"} -> [step |-> "poolRead", pool |-> NoPool]
    [] t.kind = "prefetch" -> [step |-> "prefetchRead", pool |-> NoPool]
    [] OTHER -> [step |-> "meta", pool |-> NoPool]

\* the code a task runs synchronously when a worker calls it: its first
\* storage call, or (cache hit) the step after the pool lookup
SyncStart(t, cache) ==
  CASE t.kind = "create_pair" -> [step |-> "upsertPool", pool |-> NoPool]
    [] t.kind \in {"swap", "liq"} ->
         IF cache[t.pair] # NoPool
         THEN [step |-> "insertTrade", pool |-> cache[t.pair]]
         ELSE [step |-> "poolRead", pool |-> NoPool]
    [] t.kind = "prefetch" ->
         IF cache[t.pair] # NoPool
         THEN [step |-> "ret", pool |-> NoPool]
         ELSE [step |-> "prefetchRead", pool |-> NoPool]
    [] OTHER -> [step |-> "meta", pool |-> NoPool]

AfterLookupNoCheck(p) == "insertTrade"

\* lines 155-156 / 215-216: an unknown pool ends the task
AfterLookup(p) == IF p = NoPool THEN "ret" ELSE "insertTrade"

\* Number(x || 0)
Num(a) == IF a = NoAmt THEN 0 ELSE a

RECURSIVE Pow10(_)
Pow10(n) == IF n = 0 THEN 1 ELSE 10 * Pow10(n - 1)

\* lines 174-178: the base and quote reserves used for the price
PriceReserves(t, pool) ==
  IF t.r1d = pool.base_denom THEN [Rb |-> Num(t.r1a), Rq |-> Num(t.r2a)]
  ELSE IF t.r2d = pool.base_denom THEN [Rb |-> Num(t.r2a), Rq |-> Num(t.r1a)]
  ELSE [Rb |-> 0, Rq |-> 0]

\* lines 174 and 178: whether the swap task writes a 1-minute bar
WritesBar(t, pool) ==
  /\ t.kind = "swap"
  /\ pool.is_uzig_quote /\ t.r1d # NULL /\ t.r2d # NULL
  /\ PriceReserves(t, pool).Rb > 0 /\ PriceReserves(t, pool).Rq > 0

\* line 179: (Rq / 10^quote_exp) / (Rb / 10^base_exp), kept as a reduced fraction
Price(t, pool) ==
  LET r == PriceReserves(t, pool)
      m == Min(pool.base_exp, pool.quote_exp)
      n == r.Rq * Pow10(pool.base_exp - m)
      d == r.Rb * Pow10(pool.quote_exp - m)
      g == GCD(n, d)
  IN <<n \div g, d \div g>>

\* parse.js toDisp: base units to display units, kept in 10^-6 units
toDisp(a, exp) == IF a = NoAmt THEN 0 ELSE (a * 1000000) \div Pow10(exp)

\* lines 180-182
VolZig(t, pool) ==
  IF t.offer = pool.quote_denom THEN toDisp(t.offerAmt, pool.quote_exp)
  ELSE toDisp(t.retAmt, pool.quote_exp)

\* line 183
Bucket(ms) == (ms \div 60000) * 60000

\* the row insertTrade receives (lines 158-167, 219-229)
TradeRow(t, pool, h) ==
  [pool_id |-> pool.pool_id, pair_contract |-> t.pair, action |-> t.action,
   direction |-> IF t.kind = "swap" THEN classifyDirection(t.offer, pool.quote_denom)
                 ELSE t.action,
   offer |-> t.offer, offerAmt |-> t.offerAmt, retAmt |-> t.retAmt,
   r1d |-> t.r1d, r1a |-> t.r1a, r2d |-> t.r2d, r2a |-> t.r2a,
   height |-> h, tx_hash |-> t.tx_hash, msg_index |-> t.msg_index]


-----------------------------------------------------------------------------
(* The blocks the height may hold *)
cpNew == CreatePairEv(FACTORY_ADDR, "tokB", "uzig")
regNew == RegisterEv(FACTORY_ADDR, "pNew")
swapNew == SwapEv("pNew", "uzig", 50, 20, "tokB", 1000, "uzig", 2000)
swapA == SwapEv("pOld", "uzig", 100, 40, "tokA", 500, "uzig", 1500)
swapB == SwapEv("pOld", "tokA", 10, 30, "tokA", 600, "uzig", 1200)
swapGhost == SwapEv("pGhost", "uzig", 5, 5, "tokG", 10, "uzig", 10)
liqOld == LiqEv("provide_liquidity", "pOld", "tokA", 700, "uzig", 1400, 5)
liqGhost == LiqEv("withdraw_liquidity", "pGhost", "tokG", 10, "uzig", 10, 1)

TxSet == { <<cpNew, regNew, swapNew>>, <<swapA, swapB>>, <<swapB>>,
           <<swapGhost, liqGhost, liqOld>> }

RECURSIVE SeqsUpTo(_, _)
SeqsUpTo(S, n) ==
  IF n = 0 THEN {<<>>}
  ELSE LET shorter == SeqsUpTo(S, n - 1)
       IN shorter \cup {Append(q, x) : q \in shorter, x \in S}

\* header.time is in ms since the epoch; time 0 stands for a missing header
Blocks == {[height |-> 7, header |-> [time |-> 125000], txs |-> q] :
             q \in SeqsUpTo(TxSet, MaxTxs)}
            \cup {[height |-> 7, header |-> [time |-> 0], txs |-> q] :
                    q \in SeqsUpTo(TxSet, 1)}
MissingHeaderIgnored(b) == FALSE

\* line 62: !blk || !blk.header
MissingHeader(b) == b.header.time = 0

InitPools == [a \in PoolAddrs |->
                IF a = "pOld"
                THEN [pool_id |-> 1, base |-> "tokA", quote |-> "uzig",
                      height |-> 1, tx_hash |-> 0]
                ELSE NoPoolRow]
InitPoolState == [a \in PoolAddrs |->
                    IF a = "pOld"
                    THEN [r1d |-> "tokA", r1a |-> 400, r2d |-> "uzig", r2a |-> 1600]
                    ELSE NoState]
InitBars == [k \in PoolAddrs \X {Bucket(b.header.time) : b \in Blocks} |-> NoBar]
InitCache == [a \in PoolAddrs |-> NoPool]

\* nothing is under examination outside the block processor
NoExtract == [done |-> FALSE,
              out |-> [tasks |-> <<>>, low |-> <<>>, seen |-> {}, prefetch |-> <<>>]]
NoRow == [open |-> NoAmt, high |-> NoAmt, low |-> NoAmt, close |-> NoAmt,
          volume |-> NoAmt, trades |-> NoAmt]
NoCandleReq == [mode |-> "price", unit |-> "native", tf |-> "1m", from |-> 0, to |-> 0,
                zigUsd |-> 1, circ |-> NoAmt, fill |-> "prev", stored |-> <<>>]
NoCandles == [done |-> FALSE, bars |-> <<>>]

ExtractIdle ==
  /\ exIn = <<>>
  /\ exOut = NoExtract

CandlesIdle ==
  /\ candleReq = NoCandleReq
  /\ candleRes = NoCandles

\* a JavaScript Number: m * 2^e with a normalised significand, or zero
Zero == [m |-> 0, e |-> 0]
NullF == [m |-> 0 - 1, e |-> 0]      \* null / undefined where a Number is expected

NoSimReq == [fromIsZig |-> TRUE, amountIn |-> Zero, Rz |-> Zero, Rt |-> Zero, fee |-> Zero]
NoSim == [done |-> FALSE, out |-> Zero, price |-> Zero]
NoRouteReq == [from |-> NULL, to |-> NULL, amt |-> NullF, minTvl |-> NullF,
               tiePct |-> NullF, zigUsd |-> NullF, pools |-> <<>>]
NoRoute == [done |-> FALSE, handler |-> NULL, status |-> 0, success |-> FALSE,
            route |-> <<>>, pairs |-> <<>>, price_native |-> NullF,
            price_usd |-> NullF, source |-> NULL, selection |-> <<>>]

SimIdle ==
  /\ simReq = NoSimReq
  /\ simRes = NoSim

RouteIdle ==
  /\ routeReq = NoRouteReq
  /\ routeRes = NoRoute

NoJob == [done |-> FALSE]

MetaIdle ==
  /\ metaReq = NoJob
  /\ metaRes = NoJob

HoldersIdle ==
  /\ holdReq = NoJob
  /\ hold = NoJob

JobsIdle == MetaIdle /\ HoldersIdle

ApiIdle ==
  /\ ExtractIdle
  /\ CandlesIdle
  /\ SimIdle
  /\ RouteIdle
  /\ JobsIdle

Store == [pools |-> dbPools, trades |-> dbTrades, states |-> dbPoolState, bars |-> dbBars]

\* processHeight is called in a process that has just started
Started ==
  /\ pc = "fetch"
  /\ txi = 0
  /\ tasks = <<>>
  /\ lowPrioTasks = <<>>
  /\ pairContractsToPrefetch = <<>>
  /\ poolsByContract = InitCache
  /\ metaFetchedDenoms = {}
  /\ dbPools = InitPools
  /\ dbTrades = {}
  /\ dbPoolState = InitPoolState
  /\ dbBars = InitBars
  /\ dbTokMeta = {}
  /\ rTasks = <<>>
  /\ rI = 0
  /\ rLimit = 0
  /\ workers = <<>>
  /\ results = <<>>
  /\ faults = 0
  /\ log = {}
  /\ run = 1
  /\ snap = [pools |-> InitPools, trades |-> {}, states |-> InitPoolState, bars |-> InitBars]
  /\ ApiIdle

Init ==
  /\ blk \in Blocks
  /\ Started

locals == <<txi, tasks, lowPrioTasks, pairContractsToPrefetch>>
db == <<dbPools, dbTrades, dbPoolState, dbBars, dbTokMeta>>
runner == <<rTasks, rI, rLimit, workers, results>>

-----------------------------------------------------------------------------
(* runWithConcurrency (lines 21-36) *)

WorkerCountNoLimit(limit, n) == n

\* line 24: the number of worker coroutines
WorkerCount(limit, n) == Min(limit, n)

\* line 30: results[idx] = e
StoreError(res, idx) == [res EXCEPT ![idx] = "err"]

Starts(ts, from, to) == {<<run, ts[k].tid, "start">> : k \in from..to}

\* the call: every worker takes its first task synchronously, in order
StartRun(ts, limit) ==
  LET W == WorkerCount(limit, Len(ts))
  IN /\ rTasks' = ts
     /\ rLimit' = limit
     /\ rI' = W
     /\ workers' = [k \in 1..W |->
                      [idx |-> k, step |-> SyncStart(ts[k], poolsByContract).step,
                       pool |-> SyncStart(ts[k], poolsByContract).pool]]
     /\ results' = [k \in 1..Len(ts) |-> IF k <= W THEN "pending" ELSE "unset"]
     /\ log' = log \cup Starts(ts, 1, W)

NoRun ==
  /\ rTasks' = <<>> /\ rI' = 0 /\ rLimit' = 0 /\ workers' = <<>> /\ results' = <<>>

RunnerDone == \A w \in DOMAIN workers : workers[w].idx = 0

Running(w) == w \in DOMAIN workers /\ workers[w].idx # 0
TaskOf(w) == rTasks[workers[w].idx]

\* the task of worker w moves on to its next storage call
Advance(w, step, pool, entry) ==
  /\ workers' = [workers EXCEPT ![w] = [idx |-> workers[w].idx, step |-> step, pool |-> pool]]
  /\ log' = log \cup {<<run, TaskOf(w).tid, entry>>}
  /\ UNCHANGED <<rTasks, rI, rLimit, results>>

\* the task of worker w settles with res; the worker's loop (lines 25-26)
\* takes the next task, if any, and runs its synchronous start
Settle(w, res, cache, entry) ==
  LET more == rI < Len(rTasks)
      nxt == rI + 1
  IN /\ results' = IF more THEN [res EXCEPT ![nxt] = "pending"] ELSE res
     /\ rI' = IF more THEN nxt ELSE rI
     /\ workers' = [workers EXCEPT ![w] =
                      IF more
                      THEN [idx |-> nxt, step |-> SyncStart(rTasks[nxt], cache).step,
                            pool |-> SyncStart(rTasks[nxt], cache).pool]
                      ELSE [idx |-> 0, step |-> "exit", pool |-> NoPool]]
     /\ log' = log \cup {<<run, TaskOf(w).tid, entry>>, <<run, TaskOf(w).tid, "settled">>}
                   \cup (IF more THEN Starts(rTasks, nxt, nxt) ELSE {})
     /\ UNCHANGED <<rTasks, rLimit>>

\* without the catch of lines 29-31 the worker's promise would reject: the
\* worker stops and nothing is stored
Uncaught(w) ==
  /\ workers' = [workers EXCEPT ![w] = [idx |-> 0, step |-> "rejected", pool |-> NoPool]]
  /\ log' = log \cup {<<run, TaskOf(w).tid, "fail">>}
  /\ UNCHANGED <<rTasks, rI, rLimit, results>>

\* lines 29-31: the catch stores the error at the task's index; the loop goes on
Caught(w) == Settle(w, StoreError(results, workers[w].idx), poolsByContract, "fail")

Ok(w) == [results EXCEPT ![workers[w].idx] = "ok"]


-----------------------------------------------------------------------------
(* The steps of the tasks: each is one storage (or LCD) call taking effect *)

\* line 103: upsertPool of a create_pair task
DoUpsertPool(w) ==
  /\ Running(w) /\ workers[w].step = "upsertPool"
  /\ dbPools' = upsertPool(dbPools, TaskOf(w), blk.height)
  /\ Advance(w, "primePool", NoPool, "upsertPool")
  /\ UNCHANGED <<blk, api, pc, locals, poolsByContract, metaFetchedDenoms, dbTrades,
                 dbPoolState, dbBars, dbTokMeta, faults, run, snap>>

\* lines 109-110: the create_pair task primes the cache
DoPrimePool(w) ==
  /\ Running(w) /\ workers[w].step = "primePool"
  /\ LET p == poolWithTokens(dbPools, TaskOf(w).pair)
         cache == IF p # NoPool THEN [poolsByContract EXCEPT ![TaskOf(w).pair] = p]
                  ELSE poolsByContract
     IN /\ poolsByContract' = cache
        /\ Settle(w, Ok(w), cache, "primed")
  /\ UNCHANGED <<blk, api, pc, locals, metaFetchedDenoms, db, faults, run, snap>>

\* lines 45-47, then 156 / 216: getPoolCached misses the cache and reads storage
DoPoolRead(w) ==
  /\ Running(w) /\ workers[w].step = "poolRead"
  /\ LET p == poolWithTokens(dbPools, TaskOf(w).pair)
         cache == IF p # NoPool THEN [poolsByContract EXCEPT ![TaskOf(w).pair] = p]
                  ELSE poolsByContract
     IN /\ poolsByContract' = cache
        /\ IF AfterLookup(p) = "ret"
           THEN Settle(w, Ok(w), cache, IF p = NoPool THEN "unknown" ELSE "known")
           ELSE Advance(w, AfterLookup(p), p, IF p = NoPool THEN "unknown" ELSE "known")
  /\ UNCHANGED <<blk, api, pc, locals, metaFetchedDenoms, db, faults, run, snap>>

\* lines 158-167 / 219-229
DoInsertTrade(w) ==
  /\ Running(w) /\ workers[w].step = "insertTrade"
  /\ dbTrades' = insertTrade(dbTrades, TradeRow(TaskOf(w), workers[w].pool, blk.height))
  /\ Advance(w, "upsertPoolState", workers[w].pool, "insertTrade")
  /\ UNCHANGED <<blk, api, pc, locals, poolsByContract, metaFetchedDenoms, dbPools,
                 dbPoolState, dbBars, dbTokMeta, faults, run, snap>>

\* lines 169-171 / 231-233, and the guards of the OHLCV write
DoUpsertPoolState(w) ==
  /\ Running(w) /\ workers[w].step = "upsertPoolState"
  /\ dbPoolState' = upsertPoolState(dbPoolState, TaskOf(w).pair, TaskOf(w))
  /\ IF WritesBar(TaskOf(w), workers[w].pool)
     THEN Advance(w, "upsertOHLCV", workers[w].pool, "upsertPoolState")
     ELSE Settle(w, Ok(w), poolsByContract, "upsertPoolState")
  /\ UNCHANGED <<blk, api, pc, locals, poolsByContract, metaFetchedDenoms, dbPools,
                 dbTrades, dbBars, dbTokMeta, faults, run, snap>>

\* line 184
DoUpsertOHLCV(w) ==
  /\ Running(w) /\ workers[w].step = "upsertOHLCV"
  /\ dbBars' = upsertOHLCV1m(dbBars, <<TaskOf(w).pair, Bucket(blk.header.time)>>,
                             Price(TaskOf(w), workers[w].pool),
                             VolZig(TaskOf(w), workers[w].pool), 1)
  /\ Settle(w, Ok(w), poolsByContract, "upsertOHLCV")
  /\ UNCHANGED <<blk, api, pc, locals, poolsByContract, metaFetchedDenoms, dbPools,
                 dbTrades, dbPoolState, dbTokMeta, faults, run, snap>>

\* line 246: a prefetch task reads the pool it did not find cached
DoPrefetchRead(w) ==
  /\ Running(w) /\ workers[w].step = "prefetchRead"
  /\ LET p == poolWithTokens(dbPools, TaskOf(w).pair)
         cache == IF p # NoPool THEN [poolsByContract EXCEPT ![TaskOf(w).pair] = p]
                  ELSE poolsByContract
     IN /\ poolsByContract' = cache
        /\ Settle(w, Ok(w), cache, "prefetched")
  /\ UNCHANGED <<blk, api, pc, locals, metaFetchedDenoms, db, faults, run, snap>>

\* a task that returned without a storage call (prefetch of a cached pool)
DoRet(w) ==
  /\ Running(w) /\ workers[w].step = "ret"
  /\ Settle(w, Ok(w), poolsByContract, "ret")
  /\ UNCHANGED <<blk, api, pc, locals, poolsByContract, metaFetchedDenoms, db, faults, run, snap>>

\* line 53: setTokenMetaFromLCD(denom)
DoMeta(w) ==
  /\ Running(w) /\ workers[w].step = "meta"
  /\ dbTokMeta' = dbTokMeta \cup {TaskOf(w).denom}
  /\ Settle(w, Ok(w), poolsByContract, "meta")
  /\ UNCHANGED <<blk, api, pc, locals, poolsByContract, metaFetchedDenoms, dbPools,
                 dbTrades, dbPoolState, dbBars, faults, run, snap>>

\* tokens.js lines 195-349: any failure inside setTokenMetaFromLCD is caught
\* and logged there; the task resolves and the token stays without metadata
DoMetaFail(w) ==
  /\ Running(w) /\ workers[w].step = "meta"
  /\ faults < MaxFaults
  /\ faults' = faults + 1
  /\ Settle(w, Ok(w), poolsByContract, "metaFailed")
  /\ UNCHANGED <<blk, api, pc, locals, poolsByContract, metaFetchedDenoms, db, run, snap>>

\* the pending storage call of a task rejects (lines 29-31)
Reject(w) ==
  /\ Running(w) /\ workers[w].step \notin {"ret", "meta"}
  /\ faults < MaxFaults
  /\ faults' = faults + 1
  /\ Caught(w)
  /\ UNCHANGED <<blk, api, pc, locals, poolsByContract, metaFetchedDenoms, db, run, snap>>


-----------------------------------------------------------------------------
(* processHeight (lines 56-260) *)

\* lines 59-62: fetch and unwrap; a block without header throws
Fetch ==
  /\ pc = "fetch"
  /\ IF MissingHeader(blk) THEN pc' = "threw" /\ txi' = txi
     ELSE pc' = "extract" /\ txi' = 1
  /\ UNCHANGED <<blk, api, tasks, lowPrioTasks, pairContractsToPrefetch, poolsByContract,
                 metaFetchedDenoms, db, runner, faults, log, run, snap>>

\* lines 78-235: one iteration of the transaction loop, up to the check of line 238
Extract ==
  /\ pc = "extract" /\ txi <= Len(blk.txs)
  /\ LET x == ExtractTx(blk.txs[txi], txi, metaFetchedDenoms)
     IN /\ tasks' = tasks \o x.tasks
        /\ lowPrioTasks' = lowPrioTasks \o x.low
        /\ metaFetchedDenoms' = x.seen
        /\ pairContractsToPrefetch' = AddAll(pairContractsToPrefetch, x.prefetch)
  /\ pc' = "check"
  /\ UNCHANGED <<blk, api, txi, poolsByContract, db, runner, faults, log, run, snap>>

ShouldFlushAbove(n) == n > MAX_PENDING_TASKS

\* line 238
ShouldFlush(n) == n >= MAX_PENDING_TASKS

\* lines 238-240: the back-pressure check at the end of the iteration
Backpressure ==
  /\ pc = "check"
  /\ IF ShouldFlush(Len(tasks))
     THEN /\ StartRun(tasks, BLOCK_PROC_CONCURRENCY)
          /\ tasks' = <<>>
          /\ pc' = "flush"
          /\ txi' = txi
     ELSE /\ pc' = "extract"
          /\ txi' = txi + 1
          /\ UNCHANGED <<tasks, runner, log>>
  /\ UNCHANGED <<blk, api, lowPrioTasks, pairContractsToPrefetch, poolsByContract,
                 metaFetchedDenoms, db, faults, run, snap>>

\* line 239: the flushed batch has settled; the loop goes on
FlushDone ==
  /\ pc = "flush" /\ RunnerDone
  /\ pc' = "extract"
  /\ txi' = txi + 1
  /\ UNCHANGED <<blk, api, tasks, lowPrioTasks, pairContractsToPrefetch, poolsByContract,
                 metaFetchedDenoms, db, runner, faults, log, run, snap>>

PrefetchTasks ==
  [k \in 1..Len(pairContractsToPrefetch) |->
     [Task0 EXCEPT !.kind = "prefetch", !.pair = pairContractsToPrefetch[k], !.tid = 800 + k]]

\* lines 244-249: the prefetch batch, if any pool was referenced
Prefetch ==
  /\ pc = "extract" /\ txi > Len(blk.txs)
  /\ pc' = "prefetch"
  /\ IF Len(pairContractsToPrefetch) > 0
     THEN StartRun(PrefetchTasks, Min(BLOCK_PROC_CONCURRENCY, 24))
     ELSE NoRun /\ log' = log
  /\ UNCHANGED <<blk, api, locals, poolsByContract, metaFetchedDenoms, db, faults, run, snap>>

\* lines 252-254: the primary batch
Primary ==
  /\ pc = "prefetch" /\ RunnerDone
  /\ pc' = "primary"
  /\ IF Len(tasks) > 0
     THEN StartRun(tasks, BLOCK_PROC_CONCURRENCY)
     ELSE NoRun /\ log' = log
  /\ UNCHANGED <<blk, api, locals, poolsByContract, metaFetchedDenoms, db, faults, run, snap>>

LowTasks == [k \in 1..Len(lowPrioTasks) |-> [lowPrioTasks[k] EXCEPT !.tid = 900 + k]]

PrimaryNotAwaited == TRUE

\* line 253: await runWithConcurrency(tasks) resolves when every worker is done
PrimaryAwaited == RunnerDone

\* lines 257-259: the low-priority batch
LowPrio ==
  /\ pc = "primary" /\ PrimaryAwaited
  /\ pc' = "lowprio"
  /\ IF Len(lowPrioTasks) > 0
     THEN StartRun(LowTasks, Min(4, BLOCK_PROC_CONCURRENCY))
     ELSE NoRun /\ log' = log
  /\ UNCHANGED <<blk, api, locals, poolsByContract, metaFetchedDenoms, db, faults, run, snap>>

\* line 260: processHeight returns
Return ==
  /\ pc = "lowprio" /\ RunnerDone
  /\ pc' = "done"
  /\ UNCHANGED <<blk, api, locals, poolsByContract, metaFetchedDenoms, db, runner,
                 faults, log, run, snap>>

\* the caller processes the same height again (at-least-once delivery)
Replay ==
  /\ pc = "done" /\ run < MaxRuns
  /\ run' = run + 1
  /\ snap' = Store
  /\ pc' = "fetch"
  /\ txi' = 0 /\ tasks' = <<>> /\ lowPrioTasks' = <<>> /\ pairContractsToPrefetch' = <<>>
  /\ NoRun
  /\ UNCHANGED <<blk, api, poolsByContract, metaFetchedDenoms, db, faults, log>>

\* the blocks of a later height: create_pair transactions only
cpTwo == CreatePairEv(FACTORY_ADDR, "tokA", "tokB")
regGhost == RegisterEv(FACTORY_ADDR, "pGhost")
LaterBlocks == {[height |-> 8, header |-> [time |-> 130000], txs |-> << q >>] :
                  q \in { <<cpNew, regNew>>, <<cpTwo, regGhost>> }}

\* processHeight has returned and the caller goes on to the next height
NextHeight ==
  /\ pc = "done" /\ run < MaxRuns
  /\ run' = run + 1
  /\ snap' = Store
  /\ blk' \in LaterBlocks
  /\ pc' = "fetch"
  /\ txi' = 0 /\ tasks' = <<>> /\ lowPrioTasks' = <<>> /\ pairContractsToPrefetch' = <<>>
  /\ NoRun
  /\ UNCHANGED <<api, poolsByContract, metaFetchedDenoms, db, faults, log>>

Steps ==
  \/ Fetch \/ Extract \/ Backpressure \/ FlushDone
  \/ Prefetch \/ Primary \/ LowPrio \/ Return
  \/ \E w \in 1..BLOCK_PROC_CONCURRENCY :
       \/ DoUpsertPool(w) \/ DoPrimePool(w) \/ DoPoolRead(w) \/ DoInsertTrade(w)
       \/ DoUpsertPoolState(w) \/ DoUpsertOHLCV(w) \/ DoPrefetchRead(w)
       \/ DoRet(w) \/ DoMeta(w)

\* one call of processHeight, in which storage calls may reject
Faults == \E w \in 1..BLOCK_PROC_CONCURRENCY : Reject(w) \/ DoMetaFail(w)

Next == Steps \/ Faults

Spec == Init /\ [][Next]_vars

\* the height is delivered again after processHeight returned; no call rejects
NextReplay == Steps \/ Replay

SpecReplay == Init /\ [][NextReplay]_vars

\* a process that handles a height of one transaction and then later heights
InitRetry == Init /\ Len(blk.txs) <= 1

NextRetry == Steps \/ Faults \/ NextHeight

SpecRetry == InitRetry /\ [][NextRetry]_vars

\* heights of one transaction whose events vary in what they carry: reserves
\* that are zero, missing, malformed or of another denom, a pool that is not
\* native-quoted, events of one pool with and without msg_index
swapZero == SwapEv("pOld", "uzig", 100, 40, "tokA", 500, "uzig", 0)
swapMissing == SwapEv("pOld", "uzig", 100, 40, "tokA", 500, "uzig", NoAmt)
swapMalformed == SwapEv("pOld", "uzig", 100, 40, "tokA", BadAmt, "uzig", 1500)
swapNoDenom == SwapEv("pOld", "uzig", 100, 40, "tokA", 500, NULL, 1500)
swapOther == SwapEv("pOld", "uzig", 100, 40, "tokA", 500, "tokB", 7)
swapTT == SwapEv("pNew", "tokA", 10, 10, "tokA", 10, "tokB", 10)
liqTT == LiqEv("provide_liquidity", "pNew", "tokA", 10, "tokB", 10, 1)
EventTxs ==
  { <<swapA>>, <<swapZero>>, <<swapMissing>>, <<swapMalformed>>, <<swapNoDenom>>,
    <<swapOther>>, <<liqOld>>, <<swapGhost>>, <<cpTwo, regNew, swapTT, liqTT>>,
    <<swapA, liqOld>>, <<[swapA EXCEPT !.msg_index = 1], swapB>>,
    <<[swapA EXCEPT !.msg_index = 0], [swapB EXCEPT !.msg_index = 1]>> }
EventBlocks == {[height |-> 7, header |-> [time |-> 125000], txs |-> << q >>] :
                  q \in EventTxs}

InitEvents ==
  /\ blk \in EventBlocks
  /\ Started

SpecEvents == InitEvents /\ [][Steps]_vars

-----------------------------------------------------------------------------
(* The block processor at rest, while a function of the read API is examined *)
PipelineIdle ==
  /\ blk = [height |-> 7, header |-> [time |-> 125000], txs |-> <<>>]
  /\ pc = "idle"
  /\ txi = 0
  /\ tasks = <<>>
  /\ lowPrioTasks = <<>>
  /\ pairContractsToPrefetch = <<>>
  /\ poolsByContract = InitCache
  /\ metaFetchedDenoms = {}
  /\ dbPools = InitPools
  /\ dbTrades = {}
  /\ dbPoolState = InitPoolState
  /\ dbBars = InitBars
  /\ dbTokMeta = {}
  /\ rTasks = <<>>
  /\ rI = 0
  /\ rLimit = 0
  /\ workers = <<>>
  /\ results = <<>>
  /\ faults = 0
  /\ log = {}
  /\ run = 1
  /\ snap = [pools |-> InitPools, trades |-> {}, states |-> InitPoolState, bars |-> InitBars]

pipeline == <<blk, pc, txi, tasks, lowPrioTasks, pairContractsToPrefetch,
              poolsByContract, metaFetchedDenoms, dbPools, dbTrades, dbPoolState,
              dbBars, dbTokMeta, rTasks, rI, rLimit, workers, results, faults, log, run,
              snap>>

-----------------------------------------------------------------------------
(* The loop body of processHeight (lines 79-235) on one transaction *)

\* the reserves of a swap as the packed string carries them
Packed(d1, a1, d2, a2) == <<[denom |-> d1, amount |-> a1], [denom |-> d2, amount |-> a2]>>

\* swaps on the known pool: explicit attributes, the packed string, or both
SwapInputs ==
  {<<[SwapEv("pOld", "uzig", 100, 40, d1, a1, d2, a2) EXCEPT !.reserves = str]>> :
     d1 \in {"tokA", NULL}, a1 \in {500, NoAmt, BadAmt},
     d2 \in {"uzig", NULL}, a2 \in {1500, NoAmt, BadAmt},
     str \in {<<>>, Packed("tokA", 500, "uzig", 1500), Packed("tokA", BadAmt, "uzig", 1500),
              Packed("uzig", 1500, "tokA", 500), <<[denom |-> "tokA", amount |-> 500]>>}}

\* create_pair transactions: who emitted the event, which register event
\* there is, and the instantiate events
CreateInputs ==
  {<<CreatePairEv(c, "tokB", "uzig")>> \o reg \o insts :
     c \in {FACTORY_ADDR, "other"},
     reg \in {<<>>, <<regNew>>, <<RegisterEv("other", "pGhost")>>,
              <<RegisterEv(FACTORY_ADDR, NULL)>>},
     insts \in {<<>>, <<InstantiateEv("pOld")>>,
                <<InstantiateEv("pOld"), InstantiateEv("pGhost")>>}}

InitExtract ==
  /\ PipelineIdle
  /\ CandlesIdle
  /\ SimIdle
  /\ RouteIdle
  /\ JobsIdle
  /\ exIn \in SwapInputs \cup CreateInputs
  /\ exOut = NoExtract

\* one iteration of the transaction loop on the events of exIn
ExtractOne ==
  /\ ~exOut.done
  /\ exOut' = [done |-> TRUE, out |-> ExtractTx(exIn, 1, {})]
  /\ UNCHANGED <<pipeline, exIn, candleReq, candleRes, simReq, simRes, routeReq, routeRes, jobs>>

NextExtract == ExtractOne

SpecExtract == InitExtract /\ [][NextExtract]_vars

-----------------------------------------------------------------------------
(* getCandles (api/util/ohlcv-agg.js) *)
MaxBuckets == 3      \* buckets of the requested range

\* lines 5-21, the two keys the model uses
TF_MAP == [tf \in {"1m", "5m"} |-> IF tf = "1m" THEN 60 ELSE 300]

\* the 1-minute bars the pool may have (bucket_start in seconds) and their rows
BarTimes == {0, 60, 120, 300}
BarVals == {[open |-> 2, high |-> 4, low |-> 1, close |-> 3, volume |-> 5, trades |-> 2],
            [open |-> 6, high |-> 7, low |-> 5, close |-> 5, volume |-> 1, trades |-> 1]}

CandleReqs ==
  {[mode |-> m, unit |-> u, tf |-> tf, from |-> f, to |-> f + n * TF_MAP[tf],
    zigUsd |-> 2, circ |-> 3, fill |-> fl, stored |-> st] :
     m \in {"price", "mcap"}, u \in {"native", "usd"}, tf \in DOMAIN TF_MAP,
     f \in {0, 60}, n \in 1..MaxBuckets, fl \in {"prev", "zero", "none"},
     st \in [BarTimes -> BarVals \cup {NoRow}]}

SetMin(S) == CHOOSE x \in S : \A y \in S : x <= y
SetMax(S) == CHOOSE x \in S : \A y \in S : x >= y

RECURSIVE SetSum(_, _)
SetSum(S, f) ==
  IF S = {} THEN 0 ELSE LET x == CHOOSE y \in S : TRUE IN f[x] + SetSum(S \ {x}, f)

\* lines 64-69 and 74-84: the pool's bars of [from, to) that fall in the bucket ts
Tagged(req, ts) ==
  LET step == TF_MAP[req.tf]
  IN {b \in BarTimes : /\ req.stored[b] # NoRow
                        /\ b >= req.from /\ b < req.to
                        /\ (b \div step) * step = ts}

\* lines 85-104: one aggregated bucket; open/close of the first/last minute
AggRow(req, ts) ==
  LET T == Tagged(req, ts)
  IN IF T = {} THEN NoRow
     ELSE [open |-> req.stored[SetMin(T)].open,
           high |-> SetMax({req.stored[b].high : b \in T}),
           low |-> SetMin({req.stored[b].low : b \in T}),
           close |-> req.stored[SetMax(T)].close,
           volume |-> SetSum(T, [b \in T |-> req.stored[b].volume]),
           trades |-> SetSum(T, [b \in T |-> req.stored[b].trades])]

\* lines 105-112: generate_series(from, to - 1s, step) left-joined with the buckets
SeriesLen(req) ==
  IF req.to - 1 < req.from THEN 0 ELSE ((req.to - 1 - req.from) \div TF_MAP[req.tf]) + 1
Rows(req) ==
  [k \in 1..SeriesLen(req) |->
     LET ts == req.from + (k - 1) * TF_MAP[req.tf]
     IN [ts |-> ts, row |-> AggRow(req, ts)]]

\* line 124
IsEmptyRow(r) ==
  r.open = NoAmt \/ r.high = NoAmt \/ r.low = NoAmt \/ r.close = NoAmt

\* lines 125-135: what an empty row becomes; skip = the continue of line 133
Fill(req, r, lastClose) ==
  IF ~IsEmptyRow(r) THEN [skip |-> FALSE, row |-> r]
  ELSE IF req.fill = "prev" /\ lastClose # NoAmt
       THEN [skip |-> FALSE,
             row |-> [open |-> lastClose, high |-> lastClose, low |-> lastClose,
                      close |-> lastClose, volume |-> 0, trades |-> 0]]
  ELSE IF req.fill = "zero"
       THEN [skip |-> FALSE,
             row |-> [open |-> 0, high |-> 0, low |-> 0, close |-> 0,
                      volume |-> 0, trades |-> 0]]
  ELSE [skip |-> TRUE, row |-> r]

\* lines 137-143: market-cap and USD scaling
Scale(req, r) ==
  LET c == IF req.mode = "mcap" /\ req.circ # NoAmt THEN req.circ ELSE 1
      z == IF req.unit = "usd" THEN req.zigUsd ELSE 1
  IN [open |-> r.open * c * z, high |-> r.high * c * z, low |-> r.low * c * z,
      close |-> r.close * c * z,
      volume |-> (IF r.volume = NoAmt THEN 0 ELSE r.volume) * z,
      trades |-> r.trades]

\* Number(x ?? 0)
NumOr0(x) == IF x = NoAmt THEN 0 ELSE x

\* lines 117-157: the loop over the rows, carrying lastClose
RECURSIVE CandleLoop(_, _, _, _, _)
CandleLoop(req, rows, k, lastClose, out) ==
  IF k > Len(rows) THEN out
  ELSE LET f == Fill(req, rows[k].row, lastClose)
           r == Scale(req, f.row)
       IN IF f.skip THEN CandleLoop(req, rows, k + 1, lastClose, out)
          ELSE CandleLoop(req, rows, k + 1, r.close,
                 Append(out, [ts |-> rows[k].ts, open |-> NumOr0(r.open),
                              high |-> NumOr0(r.high), low |-> NumOr0(r.low),
                              close |-> NumOr0(r.close), volume |-> NumOr0(r.volume),
                              trades |-> NumOr0(r.trades)]))

getCandles(req) == CandleLoop(req, Rows(req), 1, NoAmt, <<>>)

InitCandles ==
  /\ PipelineIdle
  /\ ExtractIdle
  /\ SimIdle
  /\ RouteIdle
  /\ JobsIdle
  /\ candleReq \in CandleReqs
  /\ candleRes = NoCandles

\* the API handler calls getCandles and gets its series
GetCandles ==
  /\ ~candleRes.done
  /\ candleRes' = [done |-> TRUE, bars |-> getCandles(candleReq)]
  /\ UNCHANGED <<pipeline, exIn, exOut, candleReq, simReq, simRes, routeReq, routeRes, jobs>>

NextCandles == GetCandles

SpecCandles == InitCandles /\ [][NextCandles]_vars

-----------------------------------------------------------------------------
(* JavaScript Number arithmetic: binary floating point, round to nearest even.
   The significand has SigBits bits (53 in IEEE-754 double precision); the
   exponent is not bounded. *)
SigBits == 8

RECURSIVE Pow2(_)
Pow2(k) == IF k = 0 THEN 1 ELSE 2 * Pow2(k - 1)

\* n/d * 2^e brought to 2^(SigBits-1) <= n/d < 2^SigBits
RECURSIVE Norm(_, _, _)
Norm(n, d, e) ==
  IF n >= d * Pow2(SigBits) THEN Norm(n, 2 * d, e + 1)
  ELSE IF n < d * Pow2(SigBits - 1) THEN Norm(2 * n, d, e - 1)
  ELSE [n |-> n, d |-> d, e |-> e]

\* the significand of x.n/x.d rounded to an integer, ties to even
Nearest(x) ==
  LET q == x.n \div x.d
      r == x.n % x.d
      m == IF 2 * r > x.d \/ (2 * r = x.d /\ q % 2 = 1) THEN q + 1 ELSE q
  IN IF m = Pow2(SigBits) THEN [m |-> Pow2(SigBits - 1), e |-> x.e + 1]
     ELSE [m |-> m, e |-> x.e]

\* the Number nearest to n/d * 2^e (n >= 0, d > 0), ties to even
Round(n, d, e) == IF n = 0 THEN Zero ELSE Nearest(Norm(n, d, e))

FromInt(n) == Round(n, 1, 0)
One == FromInt(1)

\* a < b, a <= b on Numbers that are not negative
FLess(a, b) ==
  IF b.m = 0 THEN FALSE
  ELSE IF a.m = 0 THEN TRUE
  ELSE a.e < b.e \/ (a.e = b.e /\ a.m < b.m)
FLeq(a, b) == a = b \/ FLess(a, b)
FMax(a, b) == IF FLess(a, b) THEN b ELSE a

\* a * b, a / b
FMul(a, b) == IF a.m = 0 \/ b.m = 0 THEN Zero ELSE Round(a.m * b.m, 1, a.e + b.e)
FDiv(a, b) == IF a.m = 0 THEN Zero ELSE Round(a.m, b.m, a.e - b.e)

\* a + b; an addend below a quarter of the other's last place is rounded away
FAdd(a, b) ==
  IF a.m = 0 THEN b
  ELSE IF b.m = 0 THEN a
  ELSE IF a.e - b.e > SigBits + 1 THEN a
  ELSE IF b.e - a.e > SigBits + 1 THEN b
  ELSE IF a.e >= b.e THEN Round(a.m * Pow2(a.e - b.e) + b.m, 1, b.e)
  ELSE Round(b.m * Pow2(b.e - a.e) + a.m, 1, a.e)

\* a - b for a >= b >= 0
FSub(a, b) ==
  IF b.m = 0 THEN a
  ELSE IF a.e - b.e > SigBits + 1 THEN a
  ELSE Round(a.m * Pow2(a.e - b.e) - b.m, 1, b.e)

\* |a - b|
FAbsDiff(a, b) == IF FLess(a, b) THEN FSub(b, a) ELSE FSub(a, b)

-----------------------------------------------------------------------------
(* simulateXYK (api/routes/tokens.js lines 737-757) *)

\* out and price of the constant-product swap with the fee taken on the input;
\* Math.max(x, 1e-18) is x for every x the model's Numbers reach
simulateXYK(q) ==
  IF ~(FLess(Zero, q.Rz) /\ FLess(Zero, q.Rt)) \/ ~FLess(Zero, q.amountIn)
  THEN [out |-> Zero, price |-> Zero]
  ELSE LET xInAfterFee == FMul(q.amountIn, FSub(One, q.fee))
       IN IF q.fromIsZig
          THEN LET outToken == FDiv(FMul(xInAfterFee, q.Rt), FAdd(q.Rz, xInAfterFee))
               IN [out |-> outToken, price |-> FDiv(q.amountIn, outToken)]
          ELSE LET outZig == FDiv(FMul(xInAfterFee, q.Rz), FAdd(q.Rt, xInAfterFee))
               IN [out |-> outZig, price |-> FDiv(outZig, q.amountIn)]

\* the amounts, reserves and fees simulateXYK is called with
SimAmounts == {[m |-> m, e |-> e] : m \in {128, 129, 192, 255}, e \in {0 - 7, 0 - 3, 1, 6, 12}}
SimReserves == {FromInt(1), FromInt(12), FromInt(1000)}
SimFees == {Zero, Round(1, 100, 0), Round(1, 4, 0), Round(1, 2, 0)}

SimReqs ==
  [fromIsZig : BOOLEAN, amountIn : SimAmounts, Rz : SimReserves, Rt : SimReserves,
   fee : SimFees]

InitSim ==
  /\ PipelineIdle
  /\ ExtractIdle
  /\ CandlesIdle
  /\ RouteIdle
  /\ JobsIdle
  /\ simReq \in SimReqs
  /\ simRes = NoSim

\* one call of simulateXYK
Simulate ==
  /\ ~simRes.done
  /\ simRes' = [done |-> TRUE, out |-> simulateXYK(simReq).out,
                 price |-> simulateXYK(simReq).price]
  /\ UNCHANGED <<pipeline, exIn, exOut, candleReq, candleRes, simReq, routeReq, routeRes, jobs>>

NextSim == Simulate

SpecSim == InitSim /\ [][NextSim]_vars

-----------------------------------------------------------------------------
(* The routing engine (api/routes/tokens.js lines 717-956) *)
MaxCands == 2        \* native-quoted pools of the routed token

\* pairFee: the taker fee of a pair type, for the pair types of the model
pairFee(pairType) ==
  CASE pairType = NULL -> Round(3, 1000, 0)
    [] pairType = "xyk" -> Round(1, 10000, 0)
    [] pairType = "concentrated" -> Round(1, 100, 0)
    [] pairType = "custom-xyk_2500" -> Round(2500, 10000, 0)
    [] OTHER -> Round(3, 1000, 0)

\* rows of the query of loadUzigPoolsForToken; pool_state is left-joined, so
\* the reserves may be null
RowR1 == [pool_id |-> 1, pair_type |-> "concentrated", price_in_zig |-> FromInt(83),
          res_base_base |-> 120, res_quote_base |-> 1000, base_exp |-> 1, quote_exp |-> 0,
          tvl_zig |-> FromInt(100)]
RowR2 == [pool_id |-> 2, pair_type |-> "custom-xyk_2500", price_in_zig |-> FromInt(42),
          res_base_base |-> 240, res_quote_base |-> 1000, base_exp |-> 1, quote_exp |-> 0,
          tvl_zig |-> FromInt(100)]
RowN1 == [pool_id |-> 3, pair_type |-> "xyk", price_in_zig |-> FromInt(250),
          res_base_base |-> NoAmt, res_quote_base |-> NoAmt, base_exp |-> 6, quote_exp |-> 6,
          tvl_zig |-> FromInt(24)]
RowN2 == [pool_id |-> 4, pair_type |-> "xyk", price_in_zig |-> FromInt(251),
          res_base_base |-> NoAmt, res_quote_base |-> NoAmt, base_exp |-> 6, quote_exp |-> 6,
          tvl_zig |-> FromInt(100)]
RowN3 == [pool_id |-> 5, pair_type |-> NULL, price_in_zig |-> FromInt(192),
          res_base_base |-> NoAmt, res_quote_base |-> NoAmt, base_exp |-> 6, quote_exp |-> 6,
          tvl_zig |-> Zero]
CandRows == {RowR1, RowR2, RowN1, RowN2, RowN3}

\* lines 791-810: rows to pool objects, reserves in display units, TVL filter
ToPool(r) ==
  [poolId |-> r.pool_id, pairType |-> r.pair_type, priceInZig |-> r.price_in_zig,
   tokenReserve |-> FDiv(FromInt(Num(r.res_base_base)), FromInt(Pow10(r.base_exp))),
   zigReserve |-> FDiv(FromInt(Num(r.res_quote_base)), FromInt(Pow10(r.quote_exp))),
   tvlZig |-> r.tvl_zig]
loadUzigPoolsForToken(rows, minTvlZig) ==
  SelectSeq([k \in DOMAIN rows |-> ToPool(rows[k])], LAMBDA p : FLeq(minTvlZig, p.tvlZig))

\* the sign of b - a for Numbers that are not negative
SignDiff(a, b) == IF FLess(a, b) THEN 1 ELSE IF FLess(b, a) THEN 0 - 1 ELSE 0

CmpMidOnly(a, b, side, tiePct) ==
  IF side = "buy" THEN SignDiff(b.priceInZig, a.priceInZig)
  ELSE SignDiff(a.priceInZig, b.priceInZig)

\* lines 815-830: the comparator of rankByMidWithTvl (its sign)
CmpMidTvl(a, b, side, tiePct) ==
  LET o == IF side = "buy" THEN SignDiff(b.priceInZig, a.priceInZig)
           ELSE SignDiff(a.priceInZig, b.priceInZig)
      rel == FDiv(FAbsDiff(a.priceInZig, b.priceInZig), FMax(a.priceInZig, b.priceInZig))
  IN IF o # 0
     THEN IF FLeq(rel, tiePct) THEN SignDiff(a.tvlZig, b.tvlZig) ELSE o
     ELSE SignDiff(a.tvlZig, b.tvlZig)

\* Array.prototype.sort on a short array: stable insertion sort
RECURSIVE InsertAt(_, _, _, _, _)
InsertAt(sorted, x, j, side, tiePct) ==
  IF j >= 1 /\ CmpMidTvl(sorted[j], x, side, tiePct) > 0
  THEN InsertAt(sorted, x, j - 1, side, tiePct)
  ELSE SubSeq(sorted, 1, j) \o <<x>> \o SubSeq(sorted, j + 1, Len(sorted))
RECURSIVE SortMidTvl(_, _, _)
SortMidTvl(pools, side, tiePct) ==
  IF pools = <<>> THEN <<>>
  ELSE LET front == SortMidTvl(SubSeq(pools, 1, Len(pools) - 1), side, tiePct)
       IN InsertAt(front, pools[Len(pools)], Len(front), side, tiePct)

\* lines 814-833 (callers pass a non-empty array)
rankByMidWithTvl(pools, side, tiePct) == SortMidTvl(pools, side, tiePct)[1]

\* Math.log10 on the values 1 + tvl the model reaches
Log10(x) ==
  CASE x = FromInt(2) -> Round(30103, 100000, 0)
    [] x = FromInt(25) -> Round(139794, 100000, 0)
    [] x = FromInt(101) -> Round(200432, 100000, 0)

NoSimOut == [has |-> FALSE, out |-> Zero, price |-> Zero]

\* lines 857-861: the score is the simulated output, or without a simulation
\* the mid price weighted by the TVL
Scored(p, side, fee, sim) ==
  [pool |-> p, fee |-> fee, sim |-> sim,
   score |-> IF sim.has THEN sim.out
             ELSE IF side = "buy"
               THEN FMul(FDiv(One, p.priceInZig),
                         Log10(FAdd(One, IF p.tvlZig = Zero THEN One ELSE p.tvlZig)))
             ELSE FMul(p.priceInZig,
                       Log10(FAdd(One, IF p.tvlZig = Zero THEN One ELSE p.tvlZig)))]

\* lines 840-861: one candidate with its fee, simulation and score
Candidate(p, side, fromIsZig, amountIn) ==
  Scored(p, side, pairFee(p.pairType),
         IF FLess(Zero, p.zigReserve) /\ FLess(Zero, p.tokenReserve)
         THEN [has |-> TRUE] @@
              simulateXYK([fromIsZig |-> fromIsZig, amountIn |-> amountIn,
                           Rz |-> p.zigReserve, Rt |-> p.tokenReserve,
                           fee |-> pairFee(p.pairType)])
         ELSE NoSimOut)

Worse(best, cand) == FLess(cand.score, best.score)

\* line 862: a candidate replaces the best so far only with a greater score
Better(best, cand) == FLess(best.score, cand.score)

\* line 862: if (!best || cand.score > best.score) best = cand
Keep(first, best, cand) == IF first \/ Better(best, cand) THEN cand ELSE best

\* lines 836-865 (callers pass a non-empty array)
RECURSIVE PickLoop(_, _, _, _, _, _)
PickLoop(pools, k, best, side, fromIsZig, amountIn) ==
  IF k > Len(pools) THEN best
  ELSE PickLoop(pools, k + 1,
                Keep(k = 1, best, Candidate(pools[k], side, fromIsZig, amountIn)),
                side, fromIsZig, amountIn)
pickBySimulation(pools, side, fromIsZig, amountIn) ==
  PickLoop(pools, 1, Candidate(pools[1], side, fromIsZig, amountIn), side, fromIsZig, amountIn)

RECURSIVE SumMid(_, _)
SumMid(pools, k) == IF k = 0 THEN Zero ELSE FAdd(SumMid(pools, k - 1), pools[k].priceInZig)

\* lines 868-882: about 100 USD of notional when the query has no amt
defaultAmounts(side, zigUsd, pools) ==
  LET zigAmt == FDiv(FromInt(100), zigUsd)
      avgMid == FDiv(SumMid(pools, Len(pools)), FromInt(Len(pools)))
  IN IF side = "buy" THEN zigAmt ELSE FDiv(zigAmt, avgMid)

NoBest == [found |-> FALSE, poolId |-> 0, pairType |-> NULL, priceInZig |-> NullF,
           mode |-> NULL, sim |-> NoSimOut, amountIn |-> NullF]

\* lines 886-920 and 922-956: bestBuyPool (side buy) and bestSellPool (side sell)
\* lines 897-919: the winner of the simulation, or without a simulation the
\* first pool by mid price and TVL
Selected(bySim, fallback, amt) ==
  IF ~bySim.sim.has
  THEN [found |-> TRUE, poolId |-> fallback.poolId,
        pairType |-> fallback.pairType, priceInZig |-> fallback.priceInZig,
        mode |-> "fallback_mid_tvl", sim |-> NoSimOut, amountIn |-> amt]
  ELSE [found |-> TRUE, poolId |-> bySim.pool.poolId,
        pairType |-> bySim.pool.pairType, priceInZig |-> bySim.sim.price,
        mode |-> "simulated", sim |-> bySim.sim, amountIn |-> amt]

\* lines 888-896: no pool, else the amount of the query or the default one
PoolFor(side, pools, amt, tiePct) ==
  IF pools = <<>> THEN NoBest
  ELSE Selected(pickBySimulation(pools, side, side = "buy", amt),
                rankByMidWithTvl(pools, side, tiePct), amt)
AmountFor(side, pools, amountIn, zigUsd) ==
  IF amountIn # NullF THEN amountIn
  ELSE defaultAmounts(side, zigUsd, pools)
FromPools(side, pools, amountIn, tiePct, zigUsd) ==
  PoolFor(side, pools, AmountFor(side, pools, amountIn, zigUsd), tiePct)
bestPool(side, rows, amountIn, minTvlZig, tiePct, zigUsd) ==
  FromPools(side, loadUzigPoolsForToken(rows, minTvlZig), amountIn, tiePct, zigUsd)
bestBuyPool(rows, amountIn, minTvlZig, tiePct, zigUsd) ==
  bestPool("buy", rows, amountIn, minTvlZig, tiePct, zigUsd)
bestSellPool(rows, amountIn, minTvlZig, tiePct, zigUsd) ==
  bestPool("sell", rows, amountIn, minTvlZig, tiePct, zigUsd)

-----------------------------------------------------------------------------
(* GET /swap (api/routes/tokens.js lines 966-1125, api/routes/swap.js) *)

Tokens == {"tokA", "tokB"}

\* resolveRef: the native coin, a known token, or null
resolveRef(ref) ==
  IF ref = "uzig" THEN "uzig" ELSE IF ref \in Tokens THEN "token" ELSE NULL

Response(handler, status, success, route, pairs, priceNative, priceUsd, source, selection) ==
  [done |-> TRUE, handler |-> handler, status |-> status, success |-> success,
   route |-> route, pairs |-> pairs, price_native |-> priceNative,
   price_usd |-> priceUsd, source |-> source, selection |-> selection]
ErrorResponse(handler, status) ==
  Response(handler, status, FALSE, <<>>, <<>>, NullF, NullF, NULL, <<>>)

\* one leg: pairs [] and null prices without a pool, else the pool and its price
DirectResponse(handler, route, best, zigUsd) ==
  IF ~best.found
  THEN Response(handler, 200, TRUE, route, <<>>, NullF, NullF, "direct_uzig", <<>>)
  ELSE Response(handler, 200, TRUE, route, <<best.poolId>>, best.priceInZig,
                FMul(best.priceInZig, zigUsd), "direct_uzig", <<best.mode>>)

\* 1e-18, the floor of a divisor
Tiny == [m |-> 148, e |-> 0 - 67]

CrossUnguarded(handler, route, sellA, buyB) ==
  IF ~sellA.found \/ ~buyB.found
  THEN ErrorResponse(handler, 500)
  ELSE Response(handler, 200, TRUE, route, <<sellA.poolId, buyB.poolId>>,
                FDiv(sellA.priceInZig, FMax(buyB.priceInZig, Tiny)), NullF, "via_uzig",
                <<sellA.mode, buyB.mode>>)

\* tokens.js lines 1059-1117 / swap.js lines 183-238: a missing leg gives
\* pairs [] and null prices, else the cross rate of the two legs
CrossResponse(handler, route, sellA, buyB) ==
  IF ~sellA.found \/ ~buyB.found
  THEN Response(handler, 200, TRUE, route, <<>>, NullF, NullF, "via_uzig", <<>>)
  ELSE Response(handler, 200, TRUE, route, <<sellA.poolId, buyB.poolId>>,
                FDiv(sellA.priceInZig, FMax(buyB.priceInZig, Tiny)), NullF, "via_uzig",
                <<sellA.mode, buyB.mode>>)

CrossLegsSameAmount(q, sellA) ==
  CrossResponse("sim", <<q.from, "uzig", q.to>>, sellA,
                bestBuyPool(q.pools[q.to], q.amt, q.minTvl, q.tiePct, q.zigUsd))

\* tokens.js lines 1051-1057: the buy leg is quoted for the output of the
\* sell leg if it was simulated (zigOut || undefined)
CrossLegs(q, sellA) ==
  CrossResponse("sim", <<q.from, "uzig", q.to>>, sellA,
                bestBuyPool(q.pools[q.to],
                            IF sellA.sim.has /\ sellA.sim.out # Zero THEN sellA.sim.out
                            ELSE NullF,
                            q.minTvl, q.tiePct, q.zigUsd))

\* tokens.js lines 966-1125
swapBySimulation(q) ==
  LET from == resolveRef(q.from)
      to == resolveRef(q.to)
  IN IF q.from = NULL \/ q.to = NULL THEN ErrorResponse("sim", 400)
     ELSE IF from = NULL \/ to = NULL THEN ErrorResponse("sim", 404)
     ELSE IF from = "uzig" /\ to = "token"
       THEN DirectResponse("sim", <<"uzig", q.to>>,
              bestBuyPool(q.pools[q.to], q.amt, q.minTvl, q.tiePct, q.zigUsd), q.zigUsd)
     ELSE IF from = "token" /\ to = "uzig"
       THEN DirectResponse("sim", <<q.from, "uzig">>,
              bestSellPool(q.pools[q.from], q.amt, q.minTvl, q.tiePct, q.zigUsd), q.zigUsd)
     ELSE IF from = "token" /\ to = "token"
       THEN CrossLegs(q, bestSellPool(q.pools[q.from], q.amt, q.minTvl, q.tiePct, q.zigUsd))
     ELSE ErrorResponse("sim", 400)

\* swap.js lines 50-56 / 88-94: order by mid price, equal prices by TVL
CmpExact(a, b, side) ==
  IF a.priceInZig # b.priceInZig
  THEN IF side = "buy" THEN SignDiff(b.priceInZig, a.priceInZig)
       ELSE SignDiff(a.priceInZig, b.priceInZig)
  ELSE SignDiff(a.tvlZig, b.tvlZig)

\* the first element of the sorted array: no other pool compares before it,
\* and among the pools that tie with it, it comes first
RECURSIVE TopOf(_, _, _, _)
TopOf(pools, k, top, side) ==
  IF k > Len(pools) THEN top
  ELSE TopOf(pools, k + 1, IF CmpExact(pools[k], top, side) < 0 THEN pools[k] ELSE top, side)

\* swap.js lines 32-65 and 70-103: pickBestBuyPool / pickBestSellPool
pickBestPool(side, rows) ==
  IF rows = <<>> THEN NoBest
  ELSE LET pools == [k \in DOMAIN rows |-> ToPool(rows[k])]
           top == TopOf(pools, 2, pools[1], side)
       IN [found |-> TRUE, poolId |-> top.poolId, pairType |-> top.pairType,
           priceInZig |-> top.priceInZig, mode |-> "mid", sim |-> NoSimOut,
           amountIn |-> NullF]

\* swap.js lines 118-246
swapByMid(q) ==
  LET from == resolveRef(q.from)
      to == resolveRef(q.to)
  IN IF q.from = NULL \/ q.to = NULL THEN ErrorResponse("mid", 400)
     ELSE IF from = NULL \/ to = NULL THEN ErrorResponse("mid", 404)
     ELSE IF from = "uzig" /\ to = "token"
       THEN DirectResponse("mid", <<"uzig", q.to>>, pickBestPool("buy", q.pools[q.to]), q.zigUsd)
     ELSE IF from = "token" /\ to = "uzig"
       THEN DirectResponse("mid", <<q.from, "uzig">>, pickBestPool("sell", q.pools[q.from]),
                           q.zigUsd)
     ELSE IF from = "token" /\ to = "token"
       THEN CrossResponse("mid", <<q.from, "uzig", q.to>>,
                          pickBestPool("sell", q.pools[q.from]),
                          pickBestPool("buy", q.pools[q.to]))
     ELSE ErrorResponse("mid", 400)

\* the pools a token may have: up to n distinct rows, most recently priced first
RECURSIVE RowLists(_)
RowLists(n) ==
  IF n = 0 THEN {<<>>}
  ELSE LET shorter == RowLists(n - 1)
       IN shorter \cup {Append(q, r) : q \in {l \in shorter : Len(l) = n - 1},
                                       r \in CandRows}

Distinct(l) == \A i, j \in DOMAIN l : i # j => l[i].pool_id # l[j].pool_id

Refs == {NULL, "uzig", "tokA", "tokB", "ghost"}

\* the pools of the second token: none, one with reserves, one without TVL
LegRows == {<<>>, <<RowR1>>, <<RowN3>>}

RouteReqs ==
  {[from |-> f, to |-> t, amt |-> a, minTvl |-> mt, tiePct |-> Round(1, 64, 0),
    zigUsd |-> FromInt(2), pools |-> [tok \in Refs |-> IF tok = "tokA" THEN la
                                                        ELSE IF tok = "tokB" THEN lb
                                                        ELSE <<>>]] :
     f \in Refs, t \in Refs, a \in {NullF, FromInt(3)}, mt \in {Zero, FromInt(50)},
     la \in {l \in RowLists(MaxCands) : Distinct(l)}, lb \in LegRows}

InitRoute ==
  /\ PipelineIdle
  /\ ExtractIdle
  /\ CandlesIdle
  /\ SimIdle
  /\ JobsIdle
  /\ routeReq \in RouteReqs
  /\ routeRes = NoRoute

\* the router of tokens.js answers the query
SwapBySimulation ==
  /\ ~routeRes.done
  /\ routeRes' = swapBySimulation(routeReq)
  /\ UNCHANGED <<pipeline, exIn, exOut, candleReq, candleRes, simReq, simRes, routeReq, jobs>>

\* the router of swap.js answers the query
SwapByMid ==
  /\ ~routeRes.done
  /\ routeRes' = swapByMid(routeReq)
  /\ UNCHANGED <<pipeline, exIn, exOut, candleReq, candleRes, simReq, simRes, routeReq, jobs>>

NextRoute == SwapBySimulation \/ SwapByMid

SpecRoute == InitRoute /\ [][NextRoute]_vars

-----------------------------------------------------------------------------
(* Properties *)

\* the primary tasks processHeight pushes for block b, in push order
BlockTasks(b) ==
  LET F[i \in 0..Len(b.txs)] ==
        IF i = 0 THEN <<>> ELSE F[i - 1] \o ExtractTx(b.txs[i], i, {}).tasks
  IN F[Len(b.txs)]

PrimaryKinds == {"create_pair", "swap", "liq"}
Writes == {"insertTrade", "upsertPoolState", "upsertOHLCV"}
Pending == {k \in DOMAIN results : results[k] = "pending"}
AllStarted ==
  LET bt == BlockTasks(blk) IN \A k \in DOMAIN bt : <<run, bt[k].tid, "start">> \in log
PrimaryFailed ==
  LET bt == BlockTasks(blk) IN \E k \in DOMAIN bt : <<run, bt[k].tid, "fail">> \in log
TheBucket == Bucket(blk.header.time)

\* C1: a block of one create_pair followed by one swap on the new pool ends,
\* when no call rejects, with the pool row, one trade of the swap, the swap's
\* reserves as pool state and a 1-minute bar of trade count 1
C1_EndToEnd ==
  (pc = "done" /\ faults = 0 /\ blk.txs = << <<cpNew, regNew, swapNew>> >>)
    => /\ dbPools["pNew"].pool_id # 0
       /\ Cardinality({t \in dbTrades : t.pair_contract = "pNew"}) = 1
       /\ dbPoolState["pNew"] = [r1d |-> swapNew.r1d, r1a |-> swapNew.r1a,
                                 r2d |-> swapNew.r2d, r2a |-> swapNew.r2a]
       /\ dbBars[<<"pNew", TheBucket>>].trades = 1

\* C2: when processHeight has returned from its second call on the same block,
\* every pool, pool state, bar and the set of trades are as after the first call
C2_Idempotent ==
  (pc = "done" /\ run = 2) => Store = snap

\* C3: the tasks started and not yet settled are never more than the limit of
\* the call, nor more than the tasks of the list
C3_AtMostLimit == Cardinality(Pending) <= Min(rLimit, Len(rTasks))

C3_Witness ==
  /\ rLimit >= 1 /\ Cardinality(Pending) = rLimit
  /\ rI < Len(rTasks)
  /\ \E k \in DOMAIN results : results[k] \in {"ok", "err"}

\* C4: a rejected task has its error at its own index and no other index holds
\* an error; no worker ends rejected; when the workers are done every task of
\* the list was started and has its outcome stored; and when processHeight
\* returns every primary task of the block was started
C4_ErrorsCaptured ==
  /\ \A k \in DOMAIN results :
       (results[k] = "err") <=> (<<run, rTasks[k].tid, "fail">> \in log)
  /\ \A w \in DOMAIN workers : workers[w].step # "rejected"
  /\ (RunnerDone /\ rTasks # <<>>) =>
       \A k \in DOMAIN results : results[k] \in {"ok", "err"}
  /\ pc = "done" => AllStarted

C4_Witness ==
  /\ pc \in {"primary", "flush"} /\ RunnerDone
  /\ \E j, k \in DOMAIN results : j < k /\ results[j] = "err" /\ results[k] = "ok"

\* C5: processHeight never returns normally after a primary task of the height
\* has failed
C5_FailureObserved == pc = "done" => ~PrimaryFailed

\* C6: a primary task executes only once the prefetch batch of the height has
\* completed, that is while processHeight awaits the primary batch of line 253
C6_PrefetchFirst ==
  \A w \in DOMAIN workers :
    (Running(w) /\ TaskOf(w).kind \in PrimaryKinds) => pc = "primary"

\* C7 (as claimed): the pending primary tasks never exceed MAX_PENDING_TASKS
C7_NeverAboveThreshold == Len(tasks) <= MAX_PENDING_TASKS

\* C7 (amended): at the start of every iteration of the transaction loop the
\* pending tasks are fewer than MAX_PENDING_TASKS; within an iteration they
\* exceed it by less than the tasks that iteration pushed; a flush takes the
\* whole list, and the loop goes on only when every flushed task has settled
C7_ThresholdPerTransaction ==
  /\ pc = "extract" => Len(tasks) < MAX_PENDING_TASKS
  /\ pc = "check" =>
       Len(tasks) - Len(ExtractTx(blk.txs[txi], txi, {}).tasks) < MAX_PENDING_TASKS
  /\ pc = "flush" => (tasks = <<>> /\ Len(rTasks) >= MAX_PENDING_TASKS)
  /\ (pc \in {"extract", "check"} /\ rTasks # <<>>) =>
       \A k \in DOMAIN results : results[k] \in {"ok", "err"}

C7_Witness ==
  /\ pc = "extract" /\ txi <= Len(blk.txs)
  /\ Len(rTasks) >= MAX_PENDING_TASKS
  /\ \A k \in DOMAIN results : results[k] \in {"ok", "err"}

InitStore == [pools |-> InitPools, trades |-> {}, states |-> InitPoolState, bars |-> InitBars]

\* C8: with a missing header processHeight throws before any task is pushed
\* or run: the State Store, the pool cache and the seen-denom set are untouched
C8_MissingHeaderThrows ==
  blk.header.time = 0 =>
    /\ pc \in {"fetch", "threw"}
    /\ tasks = <<>> /\ lowPrioTasks = <<>> /\ rTasks = <<>> /\ log = {}
    /\ Store = InitStore /\ dbTokMeta = {}
    /\ poolsByContract = InitCache /\ metaFetchedDenoms = {}

C8_Witness == pc = "threw" /\ blk.txs # <<>>

\* C9: a task whose pool lookup found no pool issues no trade, pool-state or
\* bar write; no row is written for a pool that does not exist; processHeight
\* does not throw when the header is present, and when it returns every
\* primary task of the block was started
C9_UnknownPoolSkipped ==
  /\ \A e \in log : e[3] = "unknown" => \A op \in Writes : <<e[1], e[2], op>> \notin log
  /\ \A t \in dbTrades : t.pool_id # 0
  /\ \A a \in PoolAddrs : dbPools[a].pool_id = 0 =>
       (dbPoolState[a] = NoState /\ dbBars[<<a, TheBucket>>] = NoBar)
  /\ blk.header.time # 0 => pc # "threw"
  /\ pc = "done" => AllStarted

C9_Witness ==
  /\ pc = "done"
  /\ \E e, f \in log : /\ e[3] = "unknown" /\ f[3] = "insertTrade"
                       /\ e[1] = f[1] /\ e[2] < f[2]

\* the swaps of block b on pool a that write a 1-minute bar, in order
BarSwaps(b, a) ==
  SelectSeq(BlockTasks(b),
            LAMBDA t : t.pair = a /\ WritesBar(t, poolWithTokens(InitPools, a)))

\* C10: when processHeight returns and no call rejected, the bar of a pool
\* known before the height with several swaps in the block holds the price of
\* the last of them in transaction/message order, and counts each of them
C10_LastSwapWins ==
  (pc = "done" /\ faults = 0) =>
    \A a \in PoolAddrs :
      LET S == BarSwaps(blk, a)
      IN Len(S) >= 2 =>
           /\ dbBars[<<a, TheBucket>>].close = Price(S[Len(S)], poolWithTokens(InitPools, a))
           /\ dbBars[<<a, TheBucket>>].trades = Len(S)

\* the denoms of the create_pair events of a transaction that processHeight honours
CreatePairDenoms(events) ==
  LET wasms == byType(events, "wasm")
      cps == wasmByAction(wasms, "create_pair")
  IN IF ResolvePoolAddr(wasms, byType(events, "instantiate")) = NULL THEN {}
     ELSE UNION {{cps[k].d1, cps[k].d2} : k \in {j \in DOMAIN cps : cps[j].contract = FACTORY_ADDR}}
            \ {NULL}

\* C11: at a later height, once the loop body has handled a transaction, every
\* denom of its create_pair events that still has no metadata has a metadata
\* task in the low-priority list
C11_DenomRetried ==
  (run >= 2 /\ pc = "check") =>
    \A d \in CreatePairDenoms(blk.txs[txi]) :
      d \notin dbTokMeta => \E k \in DOMAIN lowPrioTasks : lowPrioTasks[k].denom = d

\* the bucket of the returned bar b has no 1-minute bar
EmptyBucket(req, b) == Tagged(req, b.ts) = {}

\* C12: with fill prev or zero the series has one bar per step of [from, to),
\* in strictly increasing time order
C12_OneBarPerStep ==
  (candleRes.done /\ candleReq.fill \in {"prev", "zero"}) =>
    /\ Len(candleRes.bars) = (candleReq.to - candleReq.from) \div TF_MAP[candleReq.tf]
    /\ \A k \in 1..(Len(candleRes.bars) - 1) : candleRes.bars[k].ts < candleRes.bars[k + 1].ts

\* C13: a returned bar of an empty bucket has, under fill prev, the close of
\* the bar returned before it in its four price fields and no volume or trades;
\* under fill zero its four price fields are 0
C13_FillCorrect ==
  candleRes.done =>
    \A k \in DOMAIN candleRes.bars :
      LET b == candleRes.bars[k]
      IN EmptyBucket(candleReq, b) =>
           /\ (candleReq.fill = "prev" /\ k > 1) =>
                /\ b.open = candleRes.bars[k - 1].close /\ b.high = b.open
                /\ b.low = b.open /\ b.close = b.open
                /\ b.volume = 0 /\ b.trades = 0
           /\ candleReq.fill = "zero" =>
                (b.open = 0 /\ b.high = 0 /\ b.low = 0 /\ b.close = 0)

\* the swap carries its reserves in the four attributes only / in the string only
ExplicitOnly(ev) ==
  /\ ev.action = "swap" /\ ev.reserves = <<>>
  /\ ev.r1d # NULL /\ ev.r2d # NULL /\ ev.r1a # NoAmt /\ ev.r2a # NoAmt
PackedOnly(ev) ==
  /\ ev.action = "swap" /\ Len(ev.reserves) = 2
  /\ ev.r1d = NULL /\ ev.r2d = NULL /\ ev.r1a = NoAmt /\ ev.r2a = NoAmt

\* the same swap with its reserves in the other encoding
AsPacked(ev) ==
  [ev EXCEPT !.r1d = NULL, !.r1a = NoAmt, !.r2d = NULL, !.r2a = NoAmt,
             !.reserves = Packed(ev.r1d, ev.r1a, ev.r2d, ev.r2a)]
AsExplicit(ev) ==
  [ev EXCEPT !.r1d = ev.reserves[1].denom, !.r1a = ev.reserves[1].amount,
             !.r2d = ev.reserves[2].denom, !.r2a = ev.reserves[2].amount,
             !.reserves = <<>>]

\* the arguments of insertTrade and upsertPoolState that the tasks of a
\* transaction issue on the known pool
WriteArgs(ts) ==
  [k \in DOMAIN ts |->
     [trade |-> TradeRow(ts[k], poolWithTokens(InitPools, ts[k].pair), 7),
      state |-> <<poolWithTokens(InitPools, ts[k].pair).pool_id,
                  ts[k].r1d, ts[k].r1a, ts[k].r2d, ts[k].r2a>>]]

\* C14: a swap with its reserves in the four explicit attributes and the same
\* swap with the same ordered pairs in the packed string only give tasks that
\* issue the same insertTrade and upsertPoolState arguments
C14_DualEncoding ==
  (exOut.done /\ Len(exIn) = 1) =>
    /\ ExplicitOnly(exIn[1]) =>
         WriteArgs(exOut.out.tasks) = WriteArgs(ExtractTx(<<AsPacked(exIn[1])>>, 1, {}).tasks)
    /\ PackedOnly(exIn[1]) =>
         WriteArgs(exOut.out.tasks) = WriteArgs(ExtractTx(<<AsExplicit(exIn[1])>>, 1, {}).tasks)

C14_Witness ==
  /\ exOut.done /\ Len(exIn) = 1 /\ PackedOnly(exIn[1])
  /\ Len(exOut.out.tasks) = 1
  /\ exOut.out.tasks[1].r1d = "tokA" /\ exOut.out.tasks[1].r1a = 500
  /\ exOut.out.tasks[1].r2d = "uzig" /\ exOut.out.tasks[1].r2a = 1500

\* the events of a transaction that bear on create_pair
FactoryCreates(events) ==
  SelectSeq(events, LAMBDA e : e.type = "wasm" /\ e.action = "create_pair"
                                /\ e.contract = FACTORY_ADDR)
FactoryRegisters(events) ==
  SelectSeq(events, LAMBDA e : e.type = "wasm" /\ e.action = "register"
                                /\ e.contract = FACTORY_ADDR)
Instantiates(events) == SelectSeq(events, LAMBDA e : e.type = "instantiate")
CreateTasks(ts) == SelectSeq(ts, LAMBDA t : t.kind = "create_pair")

\* C19: the loop body pushes a pool upsert only for a create_pair emitted by
\* the factory and only when a pool address resolves; the address is the
\* pair_contract_addr of the factory's register event when it has one, else
\* the contract of the last instantiate event; with neither, nothing is pushed
C19_CreatePairHonoured ==
  exOut.done =>
    LET regs == FactoryRegisters(exIn)
        insts == Instantiates(exIn)
        fromReg == Len(regs) > 0 /\ regs[1].pair_contract_addr # NULL
        pushed == CreateTasks(exOut.out.tasks)
    IN /\ Len(pushed) > 0 => (Len(FactoryCreates(exIn)) > 0 /\ (fromReg \/ Len(insts) > 0))
       /\ Len(pushed) <= Len(FactoryCreates(exIn))
       /\ \A k \in DOMAIN pushed :
            pushed[k].pair = IF fromReg THEN regs[1].pair_contract_addr
                             ELSE insts[Len(insts)].contract
       /\ (~fromReg /\ Len(insts) = 0) => Len(pushed) = 0

C19_Witness ==
  /\ exOut.done
  /\ Len(FactoryCreates(exIn)) = 1 /\ Len(Instantiates(exIn)) = 2
  /\ \E k \in DOMAIN exIn : exIn[k].action = "register" /\ exIn[k].contract # FACTORY_ADDR
  /\ Len(CreateTasks(exOut.out.tasks)) = 1
  /\ exOut.out.tasks[1].pair = "pGhost"

\* C20: when a low-priority metadata task of the current call has started,
\* every primary task of the block, flushed early or not, has settled
C20_LowPrioAfterPrimary ==
  (\E e \in log : e[1] = run /\ e[3] = "start" /\ e[2] >= 900) =>
    LET bt == BlockTasks(blk)
    IN \A k \in DOMAIN bt : <<run, bt[k].tid, "settled">> \in log

C20_Witness ==
  /\ pc = "lowprio" /\ tasks = <<>>
  /\ \E w \in DOMAIN workers : Running(w) /\ TaskOf(w).kind = "meta"
  /\ Len(BlockTasks(blk)) >= MAX_PENDING_TASKS

\* C17: the output of a call is below the output of every call with the same
\* reserves and fee and a greater amountIn, and above the output of every
\* call with the same reserves and amountIn and a greater fee
C17_Monotone ==
  simRes.done =>
    /\ \A a \in SimAmounts :
         FLess(simReq.amountIn, a) =>
           FLess(simRes.out, simulateXYK([simReq EXCEPT !.amountIn = a]).out)
    /\ \A f \in SimFees :
         FLess(simReq.fee, f) =>
           FLess(simulateXYK([simReq EXCEPT !.fee = f]).out, simRes.out)

\* the side, the token, the eligible pools and the amount of a direct quote
DirectQuote ==
  /\ routeRes.done
  /\ routeRes.handler = "sim"
  /\ routeRes.status = 200
  /\ routeRes.source = "direct_uzig"
QuoteSide == IF routeReq.from = "uzig" THEN "buy" ELSE "sell"
QuoteToken == IF routeReq.from = "uzig" THEN routeReq.to ELSE routeReq.from
QuotePools == loadUzigPoolsForToken(routeReq.pools[QuoteToken], routeReq.minTvl)
QuoteAmt ==
  IF routeReq.amt # NullF THEN routeReq.amt
  ELSE defaultAmounts(QuoteSide, routeReq.zigUsd, QuotePools)
HasReserves(p) == FLess(Zero, p.zigReserve) /\ FLess(Zero, p.tokenReserve)
OutOf(p) ==
  simulateXYK([fromIsZig |-> QuoteSide = "buy", amountIn |-> QuoteAmt, Rz |-> p.zigReserve,
               Rt |-> p.tokenReserve, fee |-> pairFee(p.pairType)]).out

\* C15: when every candidate pool of the token has positive reserves,
\* bestBuyPool and bestSellPool return a pool whose simulated output for the
\* amountIn, after the pool's own fee, no other candidate exceeds, whatever
\* the order of the candidates
C15_GreatestOutput ==
  (/\ DirectQuote
   /\ QuotePools # <<>>
   /\ \A k \in DOMAIN QuotePools : HasReserves(QuotePools[k]))
  => \E k \in DOMAIN QuotePools :
       /\ routeRes.pairs = <<QuotePools[k].poolId>>
       /\ routeRes.selection = <<"simulated">>
       /\ \A j \in DOMAIN QuotePools : FLeq(OutOf(QuotePools[j]), OutOf(QuotePools[k]))

\* C15 witness: two candidates with reserves and different outputs, the
\* second of the list has the greater output and is selected
C15_Witness ==
  /\ DirectQuote
  /\ Len(QuotePools) = 2
  /\ \A k \in DOMAIN QuotePools : HasReserves(QuotePools[k])
  /\ FLess(OutOf(QuotePools[1]), OutOf(QuotePools[2]))
  /\ routeRes.pairs = <<QuotePools[2].poolId>>

BetterMid(a, b) ==
  IF QuoteSide = "buy" THEN FLess(a.priceInZig, b.priceInZig)
  ELSE FLess(b.priceInZig, a.priceInZig)
WithinTie(a, b) ==
  FLeq(FDiv(FAbsDiff(a.priceInZig, b.priceInZig), FMax(a.priceInZig, b.priceInZig)),
       routeReq.tiePct)
\* of two candidates, a is the one the mid price and the TVL tie-break prefer
Preferred(a, b) ==
  IF WithinTie(a, b) THEN FLess(b.tvlZig, a.tvlZig) ELSE BetterMid(a, b)

\* C16: when no candidate pool has reserves, of two candidates whose mid
\* prices differ by more than tiePct the one with the better mid is selected
\* (lower for buy, higher for sell), and of two candidates within tiePct
\* the one with the higher TVL
C16_MidTvlFallback ==
  (/\ DirectQuote
   /\ Len(QuotePools) = 2
   /\ \A k \in DOMAIN QuotePools : ~HasReserves(QuotePools[k]))
  => /\ routeRes.selection = <<"fallback_mid_tvl">>
     /\ Preferred(QuotePools[1], QuotePools[2]) => routeRes.pairs = <<QuotePools[1].poolId>>
     /\ Preferred(QuotePools[2], QuotePools[1]) => routeRes.pairs = <<QuotePools[2].poolId>>

\* C16 witness: a buy between two pools without reserves within tiePct, where
\* the selected pool has the higher TVL although its mid price is the higher
C16_Witness ==
  /\ DirectQuote
  /\ QuoteSide = "buy"
  /\ Len(QuotePools) = 2
  /\ \A k \in DOMAIN QuotePools : ~HasReserves(QuotePools[k])
  /\ WithinTie(QuotePools[1], QuotePools[2])
  /\ FLess(QuotePools[2].priceInZig, QuotePools[1].priceInZig)
  /\ FLess(QuotePools[2].tvlZig, QuotePools[1].tvlZig)
  /\ routeRes.pairs = <<QuotePools[1].poolId>>

\* a quote from a token to a token, and its legs without an eligible pool
TokenToToken ==
  /\ routeRes.done
  /\ resolveRef(routeReq.from) = "token"
  /\ resolveRef(routeReq.to) = "token"
NoEligiblePool(tok) ==
  IF routeRes.handler = "sim"
  THEN loadUzigPoolsForToken(routeReq.pools[tok], routeReq.minTvl) = <<>>
  ELSE routeReq.pools[tok] = <<>>

\* C18: a token-to-token quote whose sell leg or buy leg has no eligible
\* pool is answered with success, an empty pair list and null prices, not
\* with an error or a cross rate
C18_NullRoute ==
  (TokenToToken /\ (NoEligiblePool(routeReq.from) \/ NoEligiblePool(routeReq.to)))
  => /\ routeRes.status = 200
     /\ routeRes.success
     /\ routeRes.route = <<routeReq.from, "uzig", routeReq.to>>
     /\ routeRes.pairs = <<>>
     /\ routeRes.price_native = NullF
     /\ routeRes.price_usd = NullF

\* C18 witness: the sell leg has a pool, every pool of the buy leg is below
\* the TVL floor, and the answer is the null route
C18_Witness ==
  /\ TokenToToken
  /\ routeRes.handler = "sim"
  /\ ~NoEligiblePool(routeReq.from)
  /\ routeReq.pools[routeReq.to] # <<>>
  /\ NoEligiblePool(routeReq.to)
  /\ routeRes.success
  /\ routeRes.pairs = <<>>

\* the reserve of denom d an event reports, 0 if it reports none
ReserveOf(t, d) ==
  IF t.r1d = d THEN Num(t.r1a) ELSE IF t.r2d = d THEN Num(t.r2a) ELSE 0

\* a swap on a stored, native-quoted pool with positive base and quote reserves
PricedSwap(t) ==
  /\ t.kind = "swap"
  /\ dbPools[t.pair].pool_id # 0
  /\ dbPools[t.pair].quote = "uzig"
  /\ ReserveOf(t, dbPools[t.pair].base) > 0
  /\ ReserveOf(t, dbPools[t.pair].quote) > 0

\* C21: upsertOHLCV1m is issued only by the task of a swap on a known pool
\* whose quote is the native asset and whose base and quote reserves in the
\* event are both strictly positive
C21_BarOnlyForPricedSwap ==
  \A w \in DOMAIN workers :
    (Running(w) /\ workers[w].step = "upsertOHLCV") => PricedSwap(TaskOf(w))


-----------------------------------------------------------------------------
(* setTokenMetaFromLCD (core/tokens.js lines 185-350) on one token row *)

Blank == ""

\* a value JavaScript treats as false in a || b: null, undefined, ''
Falsy(x) == x = NULL \/ x = Blank

\* a || b
Or(a, b) == IF Falsy(a) THEN b ELSE a

\* line 61: the strings of the model carry no surrounding blanks
normString(x) == IF Falsy(x) THEN NULL ELSE x

\* String.prototype.toUpperCase / toLowerCase on the strings of the model
toUpperCase(s) == IF s \in {"tok", "Tok"} THEN "TOK" ELSE s
toLowerCase(s) == IF s \in {"Tok", "TOK"} THEN "tok" ELSE s

\* lines 286-289
sameLettersDiffCase(a, b) ==
  IF Falsy(a) \/ Falsy(b) THEN FALSE ELSE toLowerCase(a) = toLowerCase(b) /\ a # b

\* lines 213-245: what the LCD metadata gives, with the fallbacks on the
\* exponent, the symbol and the display
LcdFields(q) ==
  LET m == q.lcd
      derive == ~q.isIbc /\ m.exponent = NoAmt /\ q.derived.has
      display == IF derive /\ Falsy(m.display) THEN q.derived.display ELSE m.display
  IN [name |-> m.name,
      symbol |-> IF derive /\ Falsy(m.symbol) THEN q.derived.symbol ELSE m.symbol,
      display |-> IF Falsy(display) /\ q.isIbc /\ q.trace # NULL THEN q.trace ELSE display,
      description |-> m.description,
      uri |-> m.uri,
      exponent |-> IF m.exponent # NoAmt THEN m.exponent
                   ELSE IF q.isIbc THEN 6
                   ELSE IF derive /\ q.derived.exponent # NoAmt THEN q.derived.exponent
                   ELSE 0]

NoPayload == [image_uri |-> NULL, website |-> NULL, twitter |-> NULL, telegram |-> NULL,
              description |-> NULL, kind |-> NULL]

\* lines 248-256: the payload behind the LCD uri
UriFields(q, uri) ==
  IF Falsy(uri) THEN NoPayload
  ELSE [q.payload EXCEPT
          !.image_uri = Or(q.payload.image_uri, IF q.payload.kind = "image" THEN uri ELSE NULL)]

\* the parameters $2..$10 of the final update, by the merge policy
Merge(q, lcd, uri) ==
  LET reg == q.reg
      symbol == Or(Or(reg.symbol, lcd.symbol), NULL)
      display == Or(Or(reg.display, lcd.display), NULL)
  IN [name |-> Or(Or(reg.name, lcd.name), NULL),
      symbol |-> IF Falsy(symbol) THEN symbol ELSE toUpperCase(symbol),
      display |-> IF sameLettersDiffCase(reg.display, lcd.display) THEN lcd.display
                  ELSE display,
      exponent |-> IF reg.exponent # NoAmt THEN reg.exponent ELSE lcd.exponent,
      image_uri |-> Or(Or(reg.image, uri.image_uri), NULL),
      description |-> Or(Or(Or(normString(uri.description), normString(reg.description)),
                            normString(lcd.description)), NULL),
      website |-> Or(Or(normString(uri.website), normString(reg.website)), NULL),
      twitter |-> Or(Or(normString(uri.twitter), normString(reg.twitter)), NULL),
      telegram |-> Or(Or(normString(uri.telegram), normString(reg.telegram)), NULL)]

\* COALESCE($n, column)
Coalesce(a, col) == IF a # NULL THEN a ELSE col
CoalesceNum(a, col) == IF a # NoAmt THEN a ELSE col

\* lines 309-334: the final update of the token row
UpdateMeta(row, p, isIbc) ==
  [row EXCEPT !.name = Coalesce(p.name, @),
              !.symbol = Coalesce(p.symbol, @),
              !.display = Coalesce(p.display, @),
              !.exponent = CoalesceNum(p.exponent, @),
              !.image_uri = Coalesce(p.image_uri, @),
              !.description = Coalesce(p.description, @),
              !.website = Coalesce(p.website, @),
              !.twitter = Coalesce(p.twitter, @),
              !.telegram = Coalesce(p.telegram, @),
              !.type = IF isIbc THEN "ibc" ELSE @]

\* lines 337-346: the supplies, written when the factory reports a total
UpdateSupplies(row, fact) ==
  IF fact.has /\ ~Falsy(Or(fact.total_supply, fact.total_minted))
  THEN [row EXCEPT !.max_supply_base = Or(Or(fact.max_supply, fact.minting_cap), NULL),
                   !.total_supply_base = Or(Or(fact.total_supply, fact.total_minted), NULL)]
  ELSE row

\* line 209: the type of an IBC denom is set before the lookups
MarkIbc(row, isIbc) == IF isIbc THEN [row EXCEPT !.type = "ibc"] ELSE row

\* lines 194-349; a rejected final update is caught at line 347 and the
\* supplies are not looked up
setTokenMetaFromLCD(q) ==
  IF q.updateFails THEN MarkIbc(q.row, q.isIbc)
  ELSE UpdateSupplies(
         UpdateMeta(q.row, Merge(q, LcdFields(q), UriFields(q, LcdFields(q).uri)), q.isIbc),
         q.fact)

\* the token rows: freshly inserted, fully described, supplies only
EmptyTokenRow ==
  [name |-> NULL, symbol |-> NULL, display |-> NULL, exponent |-> NoAmt,
   image_uri |-> NULL, description |-> NULL, website |-> NULL, twitter |-> NULL,
   telegram |-> NULL, max_supply_base |-> NULL, total_supply_base |-> NULL,
   type |-> "factory"]
FullTokenRow ==
  [name |-> "Old", symbol |-> "OLD", display |-> "old", exponent |-> 8,
   image_uri |-> "old.png", description |-> "old text", website |-> "old.site",
   twitter |-> "old.tw", telegram |-> "old.tg", max_supply_base |-> "1000",
   total_supply_base |-> "400", type |-> "factory"]
TokenRows ==
  {EmptyTokenRow, FullTokenRow,
   [EmptyTokenRow EXCEPT !.max_supply_base = "1000", !.total_supply_base = "400"]}

\* the LCD metadata: the call failed, a bare record, a full record
NoMeta == [name |-> NULL, symbol |-> NULL, display |-> NULL, description |-> NULL,
           uri |-> NULL, exponent |-> NoAmt]
LcdMetas ==
  {NoMeta, [NoMeta EXCEPT !.description = Blank],
   [name |-> "Tok", symbol |-> "tok", display |-> "tok", description |-> "lcd text",
    uri |-> "tok.json", exponent |-> 6]}

Payloads ==
  {NoPayload, [NoPayload EXCEPT !.kind = "image"],
   [image_uri |-> "uri.png", website |-> "uri.site", twitter |-> "uri.tw",
    telegram |-> "uri.tg", description |-> "uri text", kind |-> "json"]}

\* the registry asset: none found, or a curated one
NoAsset == [name |-> NULL, symbol |-> NULL, display |-> NULL, exponent |-> NoAmt,
            image |-> NULL, description |-> NULL, website |-> NULL, twitter |-> NULL,
            telegram |-> NULL]
Assets ==
  {NoAsset,
   [name |-> "Token", symbol |-> "Tok", display |-> "Tok", exponent |-> 6,
    image |-> "reg.png", description |-> "reg text", website |-> "reg.site",
    twitter |-> NULL, telegram |-> NULL]}

\* the factory denom: the call failed, or what it reports of the supplies
NoFact == [has |-> FALSE, max_supply |-> NULL, minting_cap |-> NULL,
           total_supply |-> NULL, total_minted |-> NULL]
Facts ==
  {NoFact,
   [NoFact EXCEPT !.has = TRUE, !.max_supply = "5000"],
   [NoFact EXCEPT !.has = TRUE, !.total_supply = "900"],
   [NoFact EXCEPT !.has = TRUE, !.max_supply = "5000", !.total_supply = "900"],
   [NoFact EXCEPT !.has = TRUE, !.minting_cap = "5000", !.total_minted = "900"]}

NoDerived == [has |-> FALSE, symbol |-> NULL, display |-> NULL, exponent |-> NoAmt]

MetaReqs ==
  [row : TokenRows, isIbc : {FALSE}, trace : {NULL}, lcd : LcdMetas, payload : Payloads,
   reg : Assets, fact : Facts, updateFails : BOOLEAN,
   derived : {NoDerived, [has |-> TRUE, symbol |-> "TOK", display |-> "tok", exponent |-> 6]}]
  \cup
  [row : TokenRows, isIbc : {TRUE}, trace : {NULL, "uatom"}, lcd : LcdMetas,
   payload : {NoPayload}, reg : Assets, fact : Facts, updateFails : {FALSE},
   derived : {NoDerived}]

InitMeta ==
  /\ PipelineIdle
  /\ ExtractIdle
  /\ CandlesIdle
  /\ SimIdle
  /\ RouteIdle
  /\ HoldersIdle
  /\ metaReq \in MetaReqs
  /\ metaRes = NoJob

\* one call of setTokenMetaFromLCD on the row of metaReq
SetTokenMeta ==
  /\ ~metaRes.done
  /\ metaRes' = [done |-> TRUE, row |-> setTokenMetaFromLCD(metaReq)]
  /\ UNCHANGED <<pipeline, exIn, exOut, candleReq, candleRes, simReq, simRes, routeReq,
                 routeRes, metaReq, holdReq, hold>>

NextMeta == SetTokenMeta

SpecMeta == InitMeta /\ [][NextMeta]_vars

MetaColumns == {"name", "symbol", "display", "exponent", "image_uri", "description",
                "website", "twitter", "telegram", "max_supply_base", "total_supply_base"}

IsNullCol(row, c) == IF c = "exponent" THEN row[c] = NoAmt ELSE row[c] = NULL

\* C22: whatever the registry, the LCD and the factory answer, a column of the
\* token row that held a value before setTokenMetaFromLCD holds one after it
C22_NoNullClobbering ==
  metaRes.done =>
    \A c \in MetaColumns : ~IsNullCol(metaReq.row, c) => ~IsNullCol(metaRes.row, c)

-----------------------------------------------------------------------------
(* Heights processed one after the other, in increasing order; no call rejects *)

\* the first height of the run
FirstBlocks ==
  {[height |-> 7, header |-> [time |-> 125000], txs |-> << q >>] :
     q \in { <<swapA, swapB>>, <<liqOld>>, <<cpNew, regNew, swapNew>>, <<cpNew, regNew>>,
             <<swapGhost>>, <<swapA, swapB, liqOld>> }}

\* the transactions with events of the heights that follow
LaterTxs == { <<swapB>>, <<swapNew>>, <<liqOld, swapA>>, <<liqGhost>> }

FollowingBlocks(h) ==
  {[height |-> h + 1, header |-> [time |-> 130000], txs |-> << <<>>, q >>] : q \in LaterTxs}

InitHeights ==
  /\ blk \in FirstBlocks
  /\ Started

\* processHeight(h) has returned and the caller calls processHeight(h + 1)
Following ==
  /\ pc = "done" /\ run < MaxRuns
  /\ run' = run + 1
  /\ snap' = Store
  /\ blk' \in FollowingBlocks(blk.height)
  /\ pc' = "fetch"
  /\ txi' = 0 /\ tasks' = <<>> /\ lowPrioTasks' = <<>> /\ pairContractsToPrefetch' = <<>>
  /\ NoRun
  /\ UNCHANGED <<api, poolsByContract, metaFetchedDenoms, db, faults, log>>

NextHeights == Steps \/ Following

SpecHeights == InitHeights /\ [][NextHeights]_vars

\* the swap and liquidity events of block b on pool a
EventsOn(b, a) ==
  SelectSeq(BlockTasks(b), LAMBDA t : t.kind \in {"swap", "liq"} /\ t.pair = a)

ReservesOf(t) == [r1d |-> t.r1d, r1a |-> t.r1a, r2d |-> t.r2d, r2a |-> t.r2a]

\* every task started in a call of processHeight has settled
AllSettled == \A e \in log : e[3] = "start" => <<e[1], e[2], "settled">> \in log

\* the pool state of pool a is the reserves of an event of this height or,
\* when the height has no event on a, what it was when the height before returned
LatestState(a) ==
  IF EventsOn(blk, a) # <<>>
  THEN \E k \in DOMAIN EventsOn(blk, a) : dbPoolState[a] = ReservesOf(EventsOn(blk, a)[k])
  ELSE dbPoolState[a] = snap.states[a]

\* C23: when processHeight(h) returns every task of the height has settled, and
\* (heights in increasing order, no call rejected) the state of every stored pool
\* is the reserves of an event of the highest height that has an event on it
C23_LatestHeightState ==
  pc = "done" =>
    /\ RunnerDone /\ AllSettled
    /\ \A a \in PoolAddrs : dbPools[a].pool_id # 0 => LatestState(a)

-----------------------------------------------------------------------------
(* The reserve fields of a swap, field by field *)

\* what the packed string holds for the k-th reserve: its denom and its amount
PackedDenoms(ev, k) == IF Len(ev.reserves) >= k THEN {ev.reserves[k].denom} ELSE {}
PackedAmounts(ev, k) ==
  IF Len(ev.reserves) >= k /\ ev.reserves[k].amount >= 0
  THEN {ev.reserves[k].amount} ELSE {}

\* a field is the explicit attribute when that is present (and, for an amount,
\* digit-only); otherwise it is null or what the packed string holds for it
DenomRecorded(explicit, recorded, packed) ==
  IF explicit # NULL THEN recorded = explicit ELSE recorded \in {NULL} \cup packed
AmountRecorded(explicit, recorded, packed) ==
  IF explicit >= 0 THEN recorded = explicit ELSE recorded \in {NoAmt} \cup packed

\* C24: each of the four reserve fields of a swap task is the explicit attribute
\* when it is present and valid; the packed string gives a field only when its
\* attribute is missing or not digit-only, and never replaces an explicit value
C24_ExplicitBeforePacked ==
  (exOut.done /\ Len(exIn) = 1 /\ exIn[1].action = "swap") =>
    /\ Len(exOut.out.tasks) = 1
    /\ LET ev == exIn[1]
           t == exOut.out.tasks[1]
       IN /\ DenomRecorded(ev.r1d, t.r1d, PackedDenoms(ev, 1))
          /\ AmountRecorded(ev.r1a, t.r1a, PackedAmounts(ev, 1))
          /\ DenomRecorded(ev.r2d, t.r2d, PackedDenoms(ev, 2))
          /\ AmountRecorded(ev.r2a, t.r2a, PackedAmounts(ev, 2))

\* a swap with one valid explicit amount and one malformed, and a packed string
\* that holds other amounts: the explicit 500 is kept, the packed 500 fills in
C24_Witness ==
  /\ exOut.done /\ Len(exIn) = 1 /\ exIn[1].action = "swap"
  /\ exIn[1].r1a = 500 /\ exIn[1].r2a = BadAmt
  /\ exIn[1].reserves = Packed("uzig", 1500, "tokA", 500)
  /\ exOut.out.tasks[1].r1a = 500 /\ exOut.out.tasks[1].r2a = 500

-----------------------------------------------------------------------------
(* The cross rate of a token-to-token quote and the two simulated legs *)

\* the pool of token tok that the answer names at position k of its pairs
LegPool(tok, k) ==
  LET pools == loadUzigPoolsForToken(routeReq.pools[tok], routeReq.minTvl)
  IN pools[CHOOSE i \in DOMAIN pools : pools[i].poolId = routeRes.pairs[k]]

\* the simulation of amountIn on pool p
LegSim(p, fromIsZig, amountIn) ==
  simulateXYK([fromIsZig |-> fromIsZig, amountIn |-> amountIn, Rz |-> p.zigReserve,
               Rt |-> p.tokenReserve, fee |-> pairFee(p.pairType)])

\* the native output of the sell leg for the amount of the query, and the
\* output of the buy leg for that native amount
SellOut == LegSim(LegPool(routeReq.from, 1), FALSE, routeReq.amt).out
BuyOut == LegSim(LegPool(routeReq.to, 2), TRUE, SellOut).out

\* a token-to-token quote of tokens.js for a positive amount, both legs simulated
CrossSimulated ==
  /\ TokenToToken
  /\ routeRes.handler = "sim"
  /\ routeReq.amt # NullF /\ FLess(Zero, routeReq.amt)
  /\ Len(routeRes.pairs) = 2
  /\ routeRes.selection = <<"simulated", "simulated">>

\* a and b differ by at most b / 32
Within32nd(a, b) == FLeq(FAbsDiff(a, b), FDiv(b, FromInt(32)))

\* C25 as stated: the cross rate times the amount is the output of the buy leg
\* simulated on the sell leg's native output
C25_CrossRateExact ==
  CrossSimulated => FMul(routeRes.price_native, routeReq.amt) = BuyOut

\* C25: the cross rate is the quotient of the two legs' executable prices, the
\* buy leg being simulated on the sell leg's native output; times the amount it
\* is the buy leg's output up to the rounding of the Number arithmetic
C25_CrossRateRounded ==
  CrossSimulated =>
    /\ routeRes.price_native =
         FDiv(FDiv(SellOut, routeReq.amt),
              FMax(FDiv(SellOut, FMax(BuyOut, Tiny)), Tiny))
    /\ Within32nd(FMul(routeRes.price_native, routeReq.amt), BuyOut)

C25_Witness ==
  /\ CrossSimulated
  /\ routeReq.from = "tokA" /\ routeReq.to = "tokB"
  /\ FLess(Zero, BuyOut)
  /\ FMul(routeRes.price_native, routeReq.amt) # BuyOut

-----------------------------------------------------------------------------
(* The natural keys of the trades of one height *)

\* the natural key insertTrade would see for task t
TaskKey(t) == <<t.tx_hash, t.pair, t.msg_index>>

\* C26: two distinct swap or liquidity actions of a height on the same pool
\* are pushed with distinct natural keys (tx_hash, pool, msg_index)
C26_DistinctNaturalKeys ==
  pc = "done" =>
    \A i, j \in DOMAIN BlockTasks(blk) :
      LET s == BlockTasks(blk)[i]
          t == BlockTasks(blk)[j]
      IN (i # j /\ s.kind \in {"swap", "liq"} /\ t.kind \in {"swap", "liq"}
          /\ s.pair = t.pair)
         => TaskKey(s) # TaskKey(t)

-----------------------------------------------------------------------------
(* runWithConcurrency (lines 21-36) called on its own: any list of tasks up  *)
(* to MaxTasks, any limit from 1 to MaxLimit; a storage call may reject     *)

MaxTasks == 3        \* tasks of the list
MaxLimit == 3        \* the limit of the call

\* the closures of the lists: a prefetch and a swap on the stored pool, and
\* a metadata task
RunnerTasks ==
  {[Task0 EXCEPT !.kind = "prefetch", !.pair = "pOld"],
   [Task0 EXCEPT !.kind = "meta", !.denom = "tokA"],
   ExtractTx(<<swapA>>, 1, {}).tasks[1]}

\* the lists of n tasks; the task at position k is known as k
TaskListsOf(n) == {[k \in 1..n |-> [f[k] EXCEPT !.tid = k]] : f \in [1..n -> RunnerTasks]}

InitRunner ==
  /\ blk = [height |-> 7, header |-> [time |-> 125000], txs |-> <<>>]
  /\ pc = "call"
  /\ txi = 0
  /\ tasks \in UNION {TaskListsOf(n) : n \in 0..MaxTasks}
  /\ lowPrioTasks = <<>>
  /\ pairContractsToPrefetch = <<>>
  /\ poolsByContract = InitCache
  /\ metaFetchedDenoms = {}
  /\ dbPools = InitPools
  /\ dbTrades = {}
  /\ dbPoolState = InitPoolState
  /\ dbBars = InitBars
  /\ dbTokMeta = {}
  /\ rTasks = <<>>
  /\ rI = 0
  /\ rLimit = 0
  /\ workers = <<>>
  /\ results = <<>>
  /\ faults = 0
  /\ log = {}
  /\ run = 1
  /\ snap = [pools |-> InitPools, trades |-> {}, states |-> InitPoolState, bars |-> InitBars]
  /\ ApiIdle

PromiseAny(ws) == ws = <<>> \/ \E w \in DOMAIN ws : ws[w].idx = 0

\* line 35: Promise.all(workers) resolves when every worker has left its loop
PromiseAll(ws) == \A w \in DOMAIN ws : ws[w].idx = 0

\* lines 22-34: the synchronous part of the call
Call ==
  /\ pc = "call"
  /\ \E limit \in 1..MaxLimit : StartRun(tasks, limit)
  /\ pc' = "await"
  /\ UNCHANGED <<blk, api, locals, poolsByContract, metaFetchedDenoms, db, faults, run, snap>>

\* lines 35-36: the promise of the call resolves with results
Resolve ==
  /\ pc = "await" /\ PromiseAll(workers)
  /\ pc' = "resolved"
  /\ UNCHANGED <<blk, api, locals, poolsByContract, metaFetchedDenoms, db, runner,
                 faults, log, run, snap>>

NextRunner ==
  \/ Call \/ Resolve
  \/ \E w \in 1..MaxLimit :
       \/ DoPoolRead(w) \/ DoInsertTrade(w) \/ DoUpsertPoolState(w) \/ DoUpsertOHLCV(w)
       \/ DoPrefetchRead(w) \/ DoRet(w) \/ DoMeta(w) \/ DoMetaFail(w) \/ Reject(w)

SpecRunner == InitRunner /\ [][NextRunner]_vars

\* every pending call settles, and the continuation of a settled promise runs
SpecRunnerFair == SpecRunner /\ WF_vars(NextRunner)

Settled(k) == results[k] \in {"ok", "err"}

\* the started tasks are a prefix of the list, each held by exactly one worker
\* until it settles; the call resolves only with one settled result per task
RunnerShape ==
  pc \in {"await", "resolved"} =>
    /\ rTasks = tasks /\ Len(results) = Len(tasks)
    /\ \A k \in DOMAIN results : results[k] # "unset" <=> k <= rI
    /\ \A k \in DOMAIN results :
         results[k] = "pending" <=> Cardinality({w \in DOMAIN workers : workers[w].idx = k}) = 1
    /\ \A k \in DOMAIN results :
         Settled(k) => {w \in DOMAIN workers : workers[w].idx = k} = {}
    /\ pc = "resolved" => \A k \in DOMAIN results : Settled(k)
    /\ tasks = <<>> => results = <<>> /\ PromiseAll(workers)

\* a step starts the tasks that follow the started ones, in order, and
\* never starts a task again
RunnerStep ==
  pc \in {"await", "resolved"} =>
    /\ rI' \in {rI, rI + 1}
    /\ results' = results \/ \E k \in DOMAIN results : results[k] = "pending" /\ Settled(k)'
    /\ \A k \in DOMAIN results :
         /\ Settled(k) => results'[k] = results[k]
         /\ results[k] = "pending" => results'[k] # "unset"

\* C27: with a limit of at least 1 runWithConcurrency starts every task once,
\* in list order, resolves only after every task has settled, with one result
\* per task (at once for the empty list), and it does resolve when every task
\* settles
C27_RunsEveryTaskAndResolves ==
  /\ []RunnerShape
  /\ [][RunnerStep]_vars
  /\ <>(pc = "resolved")

\* three tasks under limit 2, one of them rejected, and the call resolved
C27_Witness ==
  /\ pc = "resolved" /\ rLimit = 2 /\ Len(tasks) = 3
  /\ \E k \in DOMAIN results : results[k] = "err"
  /\ \A k \in DOMAIN results : Settled(k)

-----------------------------------------------------------------------------
(* The pool cache *)

\* the tasks a step starts: pending after it, not pending before
StartedBy(k) ==
  /\ k \in DOMAIN results' /\ results'[k] = "pending"
  /\ rTasks' # rTasks \/ results[k] = "unset"

\* what the cache holds is what storage holds for the address
CacheFromStorage ==
  \A a \in PoolAddrs :
    poolsByContract[a] # NoPool => poolsByContract[a] = poolWithTokens(dbPools, a)

\* an entry appears only as the pool a storage read found, and then stays; a
\* lookup through getPoolCached reads storage exactly when the address is
\* not cached
CacheStep ==
  /\ \A a \in PoolAddrs :
       /\ poolsByContract[a] # NoPool => poolsByContract'[a] = poolsByContract[a]
       /\ poolsByContract'[a] # poolsByContract[a] =>
            /\ poolWithTokens(dbPools, a) # NoPool
            /\ poolsByContract'[a] = poolWithTokens(dbPools, a)
            /\ \E w \in DOMAIN workers :
                 /\ Running(w) /\ TaskOf(w).pair = a
                 /\ workers[w].step \in {"poolRead", "prefetchRead", "primePool"}
  /\ \A w \in DOMAIN workers :
       (Running(w) /\ workers[w].step \in {"poolRead", "prefetchRead", "primePool"}
        /\ workers'[w] # workers[w] /\ poolWithTokens(dbPools, TaskOf(w).pair) = NoPool)
       => poolsByContract' = poolsByContract
  /\ \A w \in DOMAIN workers' :
       LET k == workers'[w].idx
       IN (k # 0 /\ StartedBy(k) /\ rTasks'[k].kind \in {"swap", "liq"}) =>
            IF poolsByContract'[rTasks'[k].pair] # NoPool
            THEN /\ workers'[w].step = "insertTrade"
                 /\ workers'[w].pool = poolsByContract'[rTasks'[k].pair]
            ELSE workers'[w].step = "poolRead"

\* C28: the cache holds only pools read from storage; a lookup that finds no
\* pool leaves it as it was and the next lookup of the address reads storage
\* again; no entry is removed or replaced; a cached address is answered from
\* the cache without a storage read
C28_CacheOnlyStoredPools ==
  /\ []CacheFromStorage
  /\ [][CacheStep]_vars

\* at the second height a swap on a pool cached at the first height goes on to
\* its insert without a pool read, while the unknown pool was read again
C28_Witness ==
  /\ blk.height = 8
  /\ \E w \in DOMAIN workers :
       /\ Running(w) /\ TaskOf(w).kind = "swap"
       /\ workers[w].step = "insertTrade"
       /\ workers[w].pool = poolsByContract[TaskOf(w).pair]
       /\ <<run, TaskOf(w).tid, "known">> \notin log
  /\ \E e \in log : e[1] = 1 /\ e[3] \in {"known", "prefetched"}

-----------------------------------------------------------------------------
(* Volume and trade count of a candle series *)

\* the stored 1-minute bars of the requested range [from, to)
StoredIn(req) ==
  {b \in BarTimes : req.stored[b] # NoRow /\ b >= req.from /\ b < req.to}

RECURSIVE SeqSum(_, _)
SeqSum(s, k) == IF k = 0 THEN 0 ELSE s[k] + SeqSum(s, k - 1)

\* C29: under fill prev or zero and the native unit, for an aligned or an
\* unaligned from, the returned bars carry in total the volume and the trade
\* count of the stored 1-minute bars of [from, to)
C29_VolumeConserved ==
  (candleRes.done /\ candleReq.fill \in {"prev", "zero"} /\ candleReq.unit = "native") =>
    /\ SeqSum([k \in DOMAIN candleRes.bars |-> candleRes.bars[k].volume], Len(candleRes.bars))
         = SetSum(StoredIn(candleReq),
                  [b \in StoredIn(candleReq) |-> candleReq.stored[b].volume])
    /\ SeqSum([k \in DOMAIN candleRes.bars |-> candleRes.bars[k].trades], Len(candleRes.bars))
         = SetSum(StoredIn(candleReq),
                  [b \in StoredIn(candleReq) |-> candleReq.stored[b].trades])

-----------------------------------------------------------------------------
(* refreshHoldersOnce (jobs/holders-refresher.js lines 19-118) on one token *)

MaxPages == 2        \* maxPages of the call

HolderAddrs == {"a1", "a2", "a3"}
NoHolder == 0 - 3    \* the address has no row in holders

\* what the chain answers to lcdDenomOwners, page after page: the owners of
\* the page and whether the pagination has a next_key
Owner(addr, amt) == [address |-> addr, amount |-> amt]
OwnerPage(items, more) == [items |-> items, more |-> more]
OwnerListings ==
  { << OwnerPage(<<>>, FALSE) >>,
    << OwnerPage(<<Owner("a1", 7)>>, FALSE) >>,
    << OwnerPage(<<Owner("a1", 7)>>, TRUE), OwnerPage(<<Owner("a2", 3)>>, FALSE) >>,
    << OwnerPage(<<Owner("a1", 7), Owner("a2", BadAmt)>>, TRUE),
       OwnerPage(<<Owner("a2", 3)>>, TRUE), OwnerPage(<<Owner("a3", 9)>>, FALSE) >> }

HolderReqs ==
  [done : {FALSE}, denom : {NULL, "tokA"}, maxPages : 1..MaxPages, pages : OwnerListings,
   table : [HolderAddrs -> {NoHolder, 5}]]

\* lines 20-23: the locals of the call; nextKey 0 is null, k is the key of page k + 1
HoldersStart(q) ==
  [done |-> FALSE, pc |-> IF q.denom = NULL THEN "done" ELSE "sweep",
   i |-> 0, nextKey |-> 0, seen |-> {}, holders |-> q.table, zeroed |-> {}]

InitHolders ==
  /\ PipelineIdle
  /\ ExtractIdle
  /\ CandlesIdle
  /\ SimIdle
  /\ RouteIdle
  /\ MetaIdle
  /\ holdReq \in HolderReqs
  /\ hold = [done |-> FALSE, pc |-> "call"]

\* lines 40-58: the upserts of the items of a page, in order
RECURSIVE UpsertItems(_, _, _)
UpsertItems(holders, items, k) ==
  IF k > Len(items) THEN holders
  ELSE UpsertItems([holders EXCEPT ![items[k].address] = digitsOrNull(items[k].amount)],
                   items, k + 1)

\* the rows a write turned from a balance into 0, with the pass that did it
Zeroed(old, new, pass) ==
  {<<a, pass>> : a \in {x \in HolderAddrs : old[x] \notin {NoHolder, 0} /\ new[x] = 0}}

\* lines 25-70: one iteration of the page loop, page being what the LCD
\* answered (NoPage after a failed fetch)
NoPage == OwnerPage(<<>>, FALSE)
SweepPage(h, page) ==
  LET after == UpsertItems(h.holders, page.items, 1)
  IN [h EXCEPT !.holders = after,
               !.seen = @ \cup {page.items[k].address : k \in DOMAIN page.items},
               !.zeroed = @ \cup Zeroed(h.holders, after, "sweep"),
               !.nextKey = IF page.more THEN h.nextKey + 1 ELSE 0,
               !.i = h.i + 1,
               !.pc = IF page.more /\ h.i + 1 < holdReq.maxPages THEN "sweep" ELSE "final"]

\* lines 78-93: every row of the token whose address was not seen gets balance 0
FinalZero(h) ==
  [a \in HolderAddrs |->
     IF h.holders[a] # NoHolder /\ a \notin h.seen THEN 0 ELSE h.holders[a]]

\* line 20
HoldersCall ==
  /\ hold.pc = "call"
  /\ hold' = HoldersStart(holdReq)
  /\ UNCHANGED <<pipeline, exIn, exOut, candleReq, candleRes, simReq, simRes, routeReq,
                 routeRes, metaReq, metaRes, holdReq>>

\* lines 26-69: the page is fetched and its owners are upserted
FetchPage ==
  /\ hold.pc = "sweep"
  /\ hold' = SweepPage(hold, holdReq.pages[hold.nextKey + 1])
  /\ UNCHANGED <<pipeline, exIn, exOut, candleReq, candleRes, simReq, simRes, routeReq,
                 routeRes, metaReq, metaRes, holdReq>>

\* lines 26-29: the fetch rejects, the catch gives null and the loop ends
FetchFails ==
  /\ hold.pc = "sweep"
  /\ hold' = SweepPage(hold, NoPage)
  /\ UNCHANGED <<pipeline, exIn, exOut, candleReq, candleRes, simReq, simRes, routeReq,
                 routeRes, metaReq, metaRes, holdReq>>

\* lines 72-111: the final pass commits
FinalPass ==
  /\ hold.pc = "final"
  /\ hold' = [hold EXCEPT !.holders = FinalZero(hold),
                          !.zeroed = @ \cup Zeroed(hold.holders, FinalZero(hold), "final"),
                          !.pc = "done", !.done = TRUE]
  /\ UNCHANGED <<pipeline, exIn, exOut, candleReq, candleRes, simReq, simRes, routeReq,
                 routeRes, metaReq, metaRes, holdReq>>

\* lines 112-114: the final pass rejects and is rolled back
FinalFails ==
  /\ hold.pc = "final"
  /\ hold' = [hold EXCEPT !.pc = "done", !.done = TRUE]
  /\ UNCHANGED <<pipeline, exIn, exOut, candleReq, candleRes, simReq, simRes, routeReq,
                 routeRes, metaReq, metaRes, holdReq>>

NextHolders == HoldersCall \/ FetchPage \/ FetchFails \/ FinalPass \/ FinalFails

SpecHolders == InitHolders /\ [][NextHolders]_vars

\* the addresses the chain reports as owners with a positive balance
Owners(pages) ==
  UNION {{pages[p].items[k].address :
            k \in {j \in DOMAIN pages[p].items : pages[p].items[j].amount > 0}} :
         p \in DOMAIN pages}

\* C30: a balance is set to 0 only by the final pass and only for an address
\* the chain does not report as an owner, also after a failed page fetch or a
\* sweep cut by maxPages
C30_OnlyGoneHoldersZeroed ==
  hold.pc \in {"sweep", "final", "done"} =>
    \A z \in hold.zeroed : z[2] = "final" /\ z[1] \notin Owners(holdReq.pages)
=============================================================================
